---------------------------- MODULE Spec2Model ----------------------------
(***************************************************************************)
(* A model of kahl / secrets-filter (src/src/main.rs, src/rust/src/main.rs)*)
(*                                                                         *)
(* Text is modelled at the level of characters: a string is a sequence of  *)
(* one-character strings, a line is a string that ends with "\n" (except   *)
(* possibly the last line of the input), and the output is the sequence of *)
(* the payloads of the write calls the program makes.                      *)
(***************************************************************************)
EXTENDS Integers, Sequences, FiniteSets, TLC

(***************************************************************************)
(* Bounds of the model.                                                    *)
(***************************************************************************)
\* the number of input lines that are not key-body filler lines
MaxEvents == 3
\* the longest run of key-body lines after a BEGIN line that is not the first
\* line of the input
ShortRun == 1
\* the number of pieces of a text of the specifications of the redactors
MaxPieces == 2
\* the number of entries of a SecretValueMap of that specification
MaxEntries == 2
\* the number of characters of the head of a token given to describe_structure
MaxTokenLen == 3
\* the number of comma-separated parts of a filter argument
MaxParts == 2
\* the number of pieces of a line given to redact_entropy
MaxWords == 3

(***************************************************************************)
(* Program constants.                                                      *)
(***************************************************************************)
STATE_NORMAL == 0
STATE_IN_PRIVATE_KEY == 1
STATE_IN_PRIVATE_KEY_OVERFLOW == 2
MAX_PRIVATE_KEY_BUFFER == 100
LONG_THRESHOLD == 50
MIN_SECRET_LEN == 8

(***************************************************************************)
(* Strings: std::str operations the program uses.                          *)
(***************************************************************************)
Digit == {"0", "1", "2", "3", "4", "5", "6", "7", "8", "9"}
Lower == {"a", "b", "c", "d", "e", "f", "g", "h", "i", "j", "k", "l", "m",
          "n", "o", "p", "q", "r", "s", "t", "u", "v", "w", "x", "y", "z"}
Upper == {"A", "B", "C", "D", "E", "F", "G", "H", "I", "J", "K", "L", "M",
          "N", "O", "P", "Q", "R", "S", "T", "U", "V", "W", "X", "Y", "Z"}
Alpha == Lower \cup Upper

\* s[i..j], empty when j < i
Sub(s, i, j) == IF j < i THEN << >> ELSE SubSeq(s, i, j)

\* does v occur in s at position i (1-based)
OccursAt(s, v, i) ==
    /\ i >= 1
    /\ i + Len(v) - 1 <= Len(s)
    /\ \A k \in 1..Len(v) : s[i + k - 1] = v[k]

\* str::contains
Contains(s, v) == \E i \in 1..(Len(s) + 1) : OccursAt(s, v, i)

\* TRUE for every v.  TLC evaluates an argument of an operator where the
\* operator first uses it; a loop that tests Known(v) first has the result of
\* each round evaluated before the next round, as the loop of the code has.
Known(v) == v = v

MinOf(S) == CHOOSE x \in S : \A y \in S : x <= y
MaxOf(S) == CHOOSE x \in S : \A y \in S : y <= x

\* concatenation of a sequence of strings
RECURSIVE FlattenRange(_, _, _)
FlattenRange(ss, lo, hi) ==
    IF lo > hi THEN << >>
    ELSE IF lo = hi THEN ss[lo]
    ELSE LET mid == (lo + hi) \div 2
         IN FlattenRange(ss, lo, mid) \o FlattenRange(ss, mid + 1, hi)

Flatten(ss) == FlattenRange(ss, 1, Len(ss))

\* str::replace(from, to) with a non-empty from: the matches are found from
\* left to right and do not overlap
RECURSIVE ReplaceFrom(_, _, _, _)
ReplaceFrom(s, from, to, i) ==
    LET occ == { j \in i..Len(s) : OccursAt(s, from, j) }
    IN IF occ = {} THEN Sub(s, i, Len(s))
       ELSE LET j == MinOf(occ)
            IN Sub(s, i, j - 1) \o to \o ReplaceFrom(s, from, to, j + Len(from))

Replace(s, from, to) == ReplaceFrom(s, from, to, 1)

\* str::split(sep) with a one-character sep: the parts between the separators
Split(s, sep) ==
    LET at  == { i \in 1..Len(s) : s[i] = sep }
        \* the position of the k-th separator; 0 and Len(s) + 1 around them
        pos == [k \in 0..(Cardinality(at) + 1) |->
                   IF k = 0 THEN 0
                   ELSE IF k > Cardinality(at) THEN Len(s) + 1
                   ELSE CHOOSE i \in at : Cardinality({ j \in at : j < i }) = k - 1]
    IN [k \in 1..(Cardinality(at) + 1) |-> Sub(s, pos[k - 1] + 1, pos[k] - 1)]

\* [String]::join(sep)
Join(parts, sep) ==
    Flatten([k \in 1..Len(parts) |->
                IF k = 1 THEN parts[k] ELSE << sep >> \o parts[k]])

\* format!("{}", n) of an unsigned integer
DigitChar(d) ==
    CASE d = 0 -> "0" [] d = 1 -> "1" [] d = 2 -> "2" [] d = 3 -> "3"
      [] d = 4 -> "4" [] d = 5 -> "5" [] d = 6 -> "6" [] d = 7 -> "7"
      [] d = 8 -> "8" [] d = 9 -> "9"

RECURSIVE Dec(_)
Dec(n) == IF n < 10 THEN << DigitChar(n) >>
          ELSE Dec(n \div 10) \o << DigitChar(n % 10) >>

\* chars().all(pred) for a set of characters
AllIn(s, class) == \A k \in 1..Len(s) : s[k] \in class

(***************************************************************************)
(* Structure fingerprint.                                                  *)
(***************************************************************************)
classify_segment(s) ==
    IF s = << >> THEN << >>
    ELSE IF AllIn(s, Digit) THEN Dec(Len(s)) \o << "N" >>
    ELSE IF AllIn(s, Alpha) THEN Dec(Len(s)) \o << "A" >>
    ELSE Dec(Len(s)) \o << "X" >>

known_prefixes == { <<"g","h","p">>, <<"g","h","o">>, <<"g","h","s">>,
                    <<"g","h","r">>, <<"n","p","m">>, <<"s","k">> }

\* faulty variant of the long branch: the first separator that occurs in the
\* token ends the search, whether its first part qualifies or not
RECURSIVE DescribeLong_FirstOccurring(_, _, _)
DescribeLong_FirstOccurring(s, seps, k) ==
    IF k > Len(seps) THEN Dec(Len(s)) \o <<"c","h","a","r","s">>
    ELSE LET sep   == seps[k]
             first == Split(s, sep)[1]
         IN IF Contains(s, << sep >>)
            THEN IF AllIn(first, Alpha) \/ first \in known_prefixes
                 THEN first \o << sep >> \o <<".",".",".",":">> \o Dec(Len(s))
                            \o <<"c","h","a","r","s">>
                 ELSE Dec(Len(s)) \o <<"c","h","a","r","s">>
            ELSE DescribeLong_FirstOccurring(s, seps, k + 1)

\* the loop over the separators of the long branch, from separator k on
RECURSIVE DescribeLong(_, _, _)
DescribeLong(s, seps, k) ==
    IF k > Len(seps) THEN Dec(Len(s)) \o <<"c","h","a","r","s">>
    ELSE LET sep   == seps[k]
             first == Split(s, sep)[1]
         IN IF /\ Contains(s, << sep >>)
               /\ (AllIn(first, Alpha) \/ first \in known_prefixes)
            THEN first \o << sep >> \o <<".",".",".",":">> \o Dec(Len(s))
                       \o <<"c","h","a","r","s">>
            ELSE DescribeLong(s, seps, k + 1)

\* faulty variant of the short branch: the separators are tried in the order
\* of the long branch, "-", "_", "."
RECURSIVE DescribeShort_LongOrder(_, _, _)
DescribeShort_LongOrder(s, seps, k) ==
    IF k > Len(seps) THEN classify_segment(s)
    ELSE LET sep   == <<"-", "_", ".">>[k]
             parts == Split(s, sep)
             first == parts[1]
         IN IF Contains(s, << sep >>) /\ Len(parts) >= 2
            THEN IF AllIn(first, Alpha) /\ Len(first) <= 12
                 THEN first \o << sep >>
                      \o Join([i \in 1..(Len(parts) - 1) |->
                                  classify_segment(parts[i + 1])], sep)
                 ELSE Join([i \in 1..Len(parts) |-> classify_segment(parts[i])],
                           sep)
            ELSE DescribeShort_LongOrder(s, seps, k + 1)

\* the loop over the separators of the short branch, from separator k on
RECURSIVE DescribeShort(_, _, _)
DescribeShort(s, seps, k) ==
    IF k > Len(seps) THEN classify_segment(s)
    ELSE LET sep   == seps[k]
             parts == Split(s, sep)
             first == parts[1]
         IN IF Contains(s, << sep >>) /\ Len(parts) >= 2
            THEN IF AllIn(first, Alpha) /\ Len(first) <= 12
                 THEN first \o << sep >>
                      \o Join([i \in 1..(Len(parts) - 1) |->
                                  classify_segment(parts[i + 1])], sep)
                 ELSE Join([i \in 1..Len(parts) |-> classify_segment(parts[i])],
                           sep)
            ELSE DescribeShort(s, seps, k + 1)

describe_structure(s) ==
    IF s = << >> THEN << >>
    ELSE IF Len(s) >= LONG_THRESHOLD
         THEN DescribeLong(s, <<"-", "_", ".">>, 1)
         ELSE DescribeShort(s, <<"-", ".", "_">>, 1)

\* format!("[REDACTED:{}:{}]", label, structure)
Marker(label, structure) ==
    <<"[","R","E","D","A","C","T","E","D",":">> \o label \o <<":">>
        \o structure \o <<"]">>


(***************************************************************************)
(* Value redactor.                                                         *)
(***************************************************************************)
\* literals
Str_password == <<"p","a","s","s","w","o","r","d">>
Str_GH_TOKEN == <<"G","H","_","T","O","K","E","N">>
Str_DB_PASSWORD == <<"D","B","_","P","A","S","S","W","O","R","D">>
Str_HOME == <<"H","O","M","E">>

\* str::ends_with
EndsWith(s, suffix) ==
    Len(suffix) <= Len(s) /\ OccursAt(s, suffix, Len(s) - Len(suffix) + 1)

\* the names of the allowlist and the suffixes that the model's environments use
EXPLICIT_ENV_VARS == { Str_GH_TOKEN }
ENV_SUFFIXES == { <<"_","P","A","S","S","W","O","R","D">>,
                  <<"_","T","O","K","E","N">> }

\* the variables of the environment (a function from names to values) that
\* are kept as secrets
load_secrets(env) ==
    LET kept == { name \in DOMAIN env :
                    /\ ~(Len(env[name]) < MIN_SECRET_LEN)
                    /\ \/ name \in EXPLICIT_ENV_VARS
                       \/ \E p \in ENV_SUFFIXES : EndsWith(name, p) }
    IN [name \in kept |-> env[name]]

\* slice::sort_by(|a, b| b.1.len().cmp(&a.1.len())): a stable sort of the
\* names by descending length of their values
RECURSIVE SortByLenDesc(_, _)
SortByLenDesc(names, secrets) ==
    IF names = << >> THEN << >>
    ELSE LET longest == CHOOSE i \in 1..Len(names) :
                 /\ \A j \in 1..Len(names) :
                        Len(secrets[names[j]]) <= Len(secrets[names[i]])
                 /\ \A j \in 1..(i - 1) :
                        Len(secrets[names[j]]) < Len(secrets[names[i]])
         IN << names[longest] >>
            \o SortByLenDesc(Sub(names, 1, longest - 1)
                                 \o Sub(names, longest + 1, Len(names)),
                             secrets)

\* the substitution loop over the sorted names
RECURSIVE SubstituteAll(_, _, _)
SubstituteAll(result, sorted, secrets) ==
    IF Known(result) /\ sorted = << >> THEN result
    ELSE LET key == Head(sorted)
             val == secrets[key]
         IN SubstituteAll(
                IF val # << >>
                THEN Replace(result, val, Marker(key, describe_structure(val)))
                ELSE result,
                Tail(sorted), secrets)

\* iter_order is the order in which the HashMap yields its entries
redact_env_values(text_, secrets_, iter_order) ==
    IF DOMAIN secrets_ = {} THEN text_
    ELSE SubstituteAll(text_, SortByLenDesc(iter_order, secrets_), secrets_)

\* the orders in which a HashMap with these keys can yield its entries
IterOrders(keys) ==
    { o \in [1..Cardinality(keys) -> keys] : \A k \in keys : \E i \in DOMAIN o : o[i] = k }

(***************************************************************************)
(* Pattern redactor.                                                       *)
(*                                                                         *)
(* A pattern of the catalogue is a sequence of items, each a literal       *)
(* string or a character class with a greedy repetition {min,max}          *)
(* (max = -1: unbounded).  This                                            *)
(* covers the regular expressions of the catalogue that have no            *)
(* alternation.  A match is found as the regex crate finds it: at the      *)
(* leftmost position, preferring the longest repetition of each item in    *)
(* turn (leftmost-first with greedy repetitions).                          *)
(***************************************************************************)
WhiteSpace == {" ", "\t", "\n", "\r"}
AlphaNum == Alpha \cup Digit

Lit(c) == [neg |-> FALSE, set |-> {c}, min |-> 1, max |-> 1, lit |-> << >>]
Rep(class, lo, hi) ==
    [neg |-> FALSE, set |-> class, min |-> lo, max |-> hi, lit |-> << >>]
NotRep(class, lo, hi) ==
    [neg |-> TRUE, set |-> class, min |-> lo, max |-> hi, lit |-> << >>]

\* a literal string, as one item
Str(str) ==
    [neg |-> FALSE, set |-> {}, min |-> Len(str), max |-> Len(str), lit |-> str]

InClass(c, item) == IF item.neg THEN c \notin item.set ELSE c \in item.set

\* the longest repetition of item at position i of s, at most item.max long
RunLen(s, i, item) ==
    IF item.lit # << >>
    THEN IF OccursAt(s, item.lit, i) THEN Len(item.lit) ELSE 0
    ELSE LET room == Len(s) - i + 1
             cap  == IF item.max = -1 \/ item.max > room THEN room ELSE item.max
             bad  == { n \in 0..(cap - 1) : ~InClass(s[i + n], item) }
         IN IF bad = {} THEN cap ELSE MinOf(bad)

\* the match of items k.. at position i of s: [ok, ends], ends the position
\* after each item; the longest repetition of item k with which the rest
\* matches is taken
RECURSIVE MatchItems(_, _, _, _)
MatchItems(s, i, items, k) ==
    IF k > Len(items) THEN [ok |-> TRUE, ends |-> << >>]
    ELSE LET run  == RunLen(s, i, items[k])
             good == { n \in items[k].min..run :
                         MatchItems(s, i + n, items, k + 1).ok }
         IN IF good = {} THEN [ok |-> FALSE, ends |-> << >>]
            ELSE LET n == MaxOf(good)
                 IN [ok |-> TRUE,
                     ends |-> << i + n >> \o MatchItems(s, i + n, items, k + 1).ends]

\* Regex::is_match
IsMatch(s, items) == \E i \in 1..(Len(s) + 1) : MatchItems(s, i, items, 1).ok

\* the text that replaces a match of pattern p that starts at i: the prefix
\* group, the marker of the secret group, the suffix group
Replacement(s, i, p, ends) ==
    LET n       == Len(p.items)
        preEnd  == IF p.pre = 0 THEN i ELSE ends[p.pre]
        secEnd  == ends[p.pre + p.sec]
        prefix  == Sub(s, i, preEnd - 1)
        secret  == Sub(s, preEnd, secEnd - 1)
        suffix  == Sub(s, secEnd, ends[n] - 1)
    IN prefix \o Marker(p.label, describe_structure(secret)) \o suffix

\* Regex::replace_all with the replacement closures of redact_patterns
\* m is a match of p at j that is not empty
IsHit(m, p, j) == m.ok /\ m.ends[Len(p.items)] > j

\* the positions from i on at which p has a match that is not empty
Hits(s, p, i) == { j \in i..Len(s) : IsHit(MatchItems(s, j, p.items, 1), p, j) }

RECURSIVE ReplaceAllFrom(_, _, _)
RECURSIVE ReplaceHit(_, _, _, _, _)
RECURSIVE ReplaceFirst(_, _, _, _)
\* the match at j, with ends m, is replaced and the search goes on after it
ReplaceHit(s, p, i, j, m) ==
    Sub(s, i, j - 1) \o Replacement(s, j, p, m.ends)
        \o ReplaceAllFrom(s, p, m.ends[Len(p.items)])

ReplaceFirst(s, p, i, hits) ==
    IF hits = {} THEN Sub(s, i, Len(s))
    ELSE ReplaceHit(s, p, i, MinOf(hits), MatchItems(s, MinOf(hits), p.items, 1))

ReplaceAllFrom(s, p, i) == ReplaceFirst(s, p, i, Hits(s, p, i))

replace_all(s, p) == ReplaceAllFrom(s, p, 1)

\* a pattern: its items, its label, the number of items of the prefix group
\* and of the secret group (the rest is the suffix group)
Pat(items, label, pre, sec) ==
    [items |-> items, label |-> label, pre |-> pre, sec |-> sec]

TokenChars == AlphaNum \cup {"_", "-"}
ValueStop == WhiteSpace \cup {",", ";", "\"", "'", "}", "[", "]"}

\* direct patterns: the whole match is the secret
build_patterns ==
    << Pat(<< Str(<<"g","h","p","_">>), Rep(AlphaNum, 36, 36) >>,
           <<"G","I","T","H","U","B","_","P","A","T">>, 0, 2),
       Pat(<< Str(<<"A","K","I","A">>), Rep(Upper \cup Digit, 16, 16) >>,
           <<"A","W","S","_","A","C","C","E","S","S","_","K","E","Y">>, 0, 2),
       Pat(<< Str(<<"S","G",".">>), Rep(TokenChars, 1, -1), Lit("."),
              Rep(TokenChars, 1, -1) >>,
           <<"S","E","N","D","G","R","I","D","_","K","E","Y">>, 0, 4) >>

\* context patterns: group 1 is the prefix, group 2 the secret
build_context_patterns ==
    << Pat(<< Str(Str_password \o <<" ">>), NotRep(WhiteSpace, 1, -1) >>,
           <<"N","E","T","R","C","_","P","A","S","S","W","O","R","D">>, 1, 1),
       Pat(<< Str(Str_password \o <<"=">>), NotRep(ValueStop, 1, -1) >>,
           <<"P","A","S","S","W","O","R","D","_","V","A","L","U","E">>, 1, 1),
       Pat(<< Str(Str_password \o <<":">>), Rep(WhiteSpace, 0, -1),
              NotRep(ValueStop, 1, -1) >>,
           <<"P","A","S","S","W","O","R","D","_","V","A","L","U","E">>, 1, 2),
       Pat(<< Str(<<"t","o","k","e","n","=">>), NotRep(ValueStop, 1, -1) >>,
           <<"T","O","K","E","N","_","V","A","L","U","E">>, 1, 1) >>

\* (://[^:]+:)([^@]+)(@)
GIT_CREDENTIAL_PATTERN ==
    Pat(<< Str(<<":","/","/">>), NotRep({":"}, 1, -1), Lit(":"),
           NotRep({"@"}, 1, -1), Lit("@") >>,
        <<"G","I","T","_","C","R","E","D","E","N","T","I","A","L">>, 3, 1)

\* ("auth":\s*")([A-Za-z0-9+/=]{20,})(")
DOCKER_AUTH_PATTERN ==
    Pat(<< Str(<<"\"","a","u","t","h","\"",":">>), Rep(WhiteSpace, 0, -1),
           Lit("\""), Rep(AlphaNum \cup {"+", "/", "="}, 20, -1), Lit("\"") >>,
        <<"D","O","C","K","E","R","_","A","U","T","H">>, 3, 1)

\* the passes of redact_patterns over a list of patterns
RECURSIVE ApplyPatterns(_, _)
ApplyPatterns(s, ps) ==
    IF Known(s) /\ ps = << >> THEN s
    ELSE ApplyPatterns(replace_all(s, Head(ps)), Tail(ps))

redact_patterns(text_, patterns, context_patterns) ==
    LET direct  == ApplyPatterns(text_, patterns)
        context == ApplyPatterns(direct, context_patterns)
        git     == replace_all(context, GIT_CREDENTIAL_PATTERN)
    IN replace_all(git, DOCKER_AUTH_PATTERN)

(***************************************************************************)
(* Entropy detector.  Entropies and thresholds are in thousandths of a bit.*)
(***************************************************************************)
\* the result of an operation that panics (the process aborts)
PANIC == << "panic!" >>

\* the bytes of U+FFFD, which String::from_utf8_lossy puts in the place of an
\* invalid sequence, and a byte that is never valid in UTF-8
ReplacementChar == << "\\xEF", "\\xBF", "\\xBD" >>
InvalidByte == "\\xFF"
ContinuationBytes == { "\\xBF", "\\xBD" }

\* the defaults of EntropyConfig
ENTROPY_THRESHOLD_HEX == 3000
ENTROPY_THRESHOLD_BASE64 == 4500
ENTROPY_THRESHOLD_ALPHANUMERIC == 4000
ENTROPY_MIN_LENGTH == 20
ENTROPY_MAX_LENGTH == 100
ENTROPY_CONTEXT_KEYWORDS ==
    << <<"h","a","s","h">>, <<"c","o","m","m","i","t">>, <<"s","h","a">>,
       <<"c","h","e","c","k","s","u","m">> >>
\* the exclusions of the catalogue: [items, keywords, label], keywords << >>
\* standing for None
ENTROPY_EXCLUSIONS == << >>

EntropyConfigDefault ==
    [threshold_hex |-> ENTROPY_THRESHOLD_HEX,
     threshold_base64 |-> ENTROPY_THRESHOLD_BASE64,
     threshold_alphanumeric |-> ENTROPY_THRESHOLD_ALPHANUMERIC,
     min_length |-> ENTROPY_MIN_LENGTH,
     max_length |-> ENTROPY_MAX_LENGTH]

\* ov holds the parsed values of the SECRETS_FILTER_ENTROPY_* variables, -1
\* for a variable that is unset or does not parse
get_entropy_config(ov) ==
    LET c0 == EntropyConfigDefault
        c1 == IF ov.threshold # -1
              THEN [c0 EXCEPT !.threshold_hex = ov.threshold,
                              !.threshold_base64 = ov.threshold,
                              !.threshold_alphanumeric = ov.threshold]
              ELSE c0
        c2 == IF ov.hex # -1 THEN [c1 EXCEPT !.threshold_hex = ov.hex] ELSE c1
        c3 == IF ov.base64 # -1 THEN [c2 EXCEPT !.threshold_base64 = ov.base64]
              ELSE c2
        c4 == IF ov.min_len # -1 THEN [c3 EXCEPT !.min_length = ov.min_len]
              ELSE c3
    IN IF ov.max_len # -1 THEN [c4 EXCEPT !.max_length = ov.max_len] ELSE c4

\* 1000 * log2(n), rounded; beyond the table, by halving
Log2Table ==
    << 0, 1000, 1585, 2000, 2322, 2585, 2807, 3000, 3170, 3322, 3459, 3585,
       3700, 3807, 3907, 4000, 4087, 4170, 4248, 4322, 4392, 4459, 4524, 4585,
       4644, 4700, 4755, 4807, 4858, 4907, 4954, 5000 >>

RECURSIVE Log2Milli(_)
Log2Milli(n) == IF n <= Len(Log2Table) THEN Log2Table[n]
                ELSE 1000 + Log2Milli(n \div 2)

RECURSIVE SumOver(_, _)
SumOver(S, f) ==
    IF S = {} THEN 0
    ELSE LET x == CHOOSE y \in S : TRUE IN f[x] + SumOver(S \ {x}, f)

\* H = -sum p log2 p with p = count / s.len()
shannon_entropy(s) ==
    IF s = << >> THEN 0
    ELSE LET chars == { s[i] : i \in 1..Len(s) }
             count == [c \in chars |-> Cardinality({ i \in 1..Len(s) : s[i] = c })]
             term  == [c \in chars |-> count[c] * (Log2Milli(Len(s)) - Log2Milli(count[c]))]
         IN SumOver(chars, term) \div Len(s)

UpperSeq == <<"A","B","C","D","E","F","G","H","I","J","K","L","M",
              "N","O","P","Q","R","S","T","U","V","W","X","Y","Z">>
LowerSeq == <<"a","b","c","d","e","f","g","h","i","j","k","l","m",
              "n","o","p","q","r","s","t","u","v","w","x","y","z">>

\* str::to_lowercase
LowerChar(c) == IF c \in Upper
                THEN LowerSeq[CHOOSE i \in 1..26 : UpperSeq[i] = c]
                ELSE c
to_lowercase(s) == [i \in 1..Len(s) |-> LowerChar(s[i])]

CHARSET_HEX == Digit \cup {"a", "b", "c", "d", "e", "f"}
CHARSET_BASE64 == AlphaNum \cup {"+", "/", "="}
CHARSET_ALPHANUMERIC == AlphaNum \cup {"_", "-"}

classify_charset(s) ==
    IF AllIn(to_lowercase(s), CHARSET_HEX) THEN "hex"
    ELSE IF AllIn(s, CHARSET_ALPHANUMERIC) THEN "alphanumeric"
    ELSE IF AllIn(s, CHARSET_BASE64) THEN "base64"
    ELSE "mixed"

\* the characters of the token delimiter class (the backtick is written as its
\* byte value)
Backtick == "\\x60"
TokenDelims == WhiteSpace \cup {"\"", "'", Backtick, "(", ")", "[", "]", "{", "}",
                                ",", ";", ":", "<", ">", "=", "@", "#"}

\* Regex::split: the parts between the maximal runs of delimiters
SplitDelims(s) ==
    LET first == { i \in 1..Len(s) :
                     s[i] \in TokenDelims /\ (i = 1 \/ s[i - 1] \notin TokenDelims) }
        last  == { i \in 1..Len(s) :
                     s[i] \in TokenDelims
                         /\ (i = Len(s) \/ s[i + 1] \notin TokenDelims) }
        n     == Cardinality(first)
        \* the k-th position of a set of positions
        nth(P, k) == CHOOSE i \in P : Cardinality({ j \in P : j < i }) = k - 1
    IN [k \in 1..(n + 1) |->
           Sub(s, IF k = 1 THEN 1 ELSE nth(last, k - 1) + 1,
                  IF k = n + 1 THEN Len(s) ELSE nth(first, k) - 1)]

\* text[pos..].find(part): the 0-based offset in text of the first
\* occurrence at or after pos, -1 for None
Find(text_, part, pos) ==
    IF \E i \in pos..Len(text_) : OccursAt(text_, part, i + 1)
    THEN CHOOSE i \in pos..Len(text_) :
             /\ OccursAt(text_, part, i + 1)
             /\ \A j \in pos..(i - 1) : ~OccursAt(text_, part, j + 1)
    ELSE -1

\* the tokens [text, start, end) of the parts from part k on, with 0-based
\* byte offsets
RECURSIVE TokensFrom(_, _, _, _, _, _)
TokensFrom(text_, parts, k, pos, min_len, max_len) ==
    IF k > Len(parts) THEN << >>
    ELSE LET part  == parts[k]
             idx   == Find(text_, part, pos)
             start == idx
             stop  == start + Len(part)
         IN IF part = << >> \/ idx = -1
            THEN TokensFrom(text_, parts, k + 1, pos, min_len, max_len)
            ELSE IF \/ Len(part) < min_len \/ Len(part) > max_len
                    \/ AllIn(part, Alpha)
                    \/ AllIn(part, Digit)
                    \/ \E i \in 1..Len(part) : part[i] \in WhiteSpace
                 THEN TokensFrom(text_, parts, k + 1, stop, min_len, max_len)
                 ELSE << [text |-> part, start |-> start, end |-> stop] >>
                      \o TokensFrom(text_, parts, k + 1, stop, min_len, max_len)

extract_tokens(text_, min_len, max_len) ==
    TokensFrom(text_, SplitDelims(text_), 1, 0, min_len, max_len)

\* str::is_char_boundary for a 0-based byte offset
IsCharBoundary(text_, idx) ==
    idx = 0 \/ idx = Len(text_)
        \/ (idx < Len(text_) /\ text_[idx + 1] \notin ContinuationBytes)

\* "true", "false", or "panic" when the slice text[start..pos] is not on
\* character boundaries
has_context_keyword(text_, pos, keywords) ==
    IF keywords = << >> THEN "false"
    ELSE LET start == IF pos >= 50 THEN pos - 50 ELSE 0
         IN IF ~IsCharBoundary(text_, start) \/ ~IsCharBoundary(text_, pos)
            THEN "panic"
            ELSE LET prefix == to_lowercase(Sub(text_, start + 1, pos))
                 IN IF \E k \in 1..Len(keywords) :
                           Contains(prefix, to_lowercase(keywords[k]))
                    THEN "true" ELSE "false"

\* the loop over the exclusions from exclusion k on: a label for Some(label),
\* << >> for None, or PANIC
RECURSIVE ExclusionFrom(_, _, _, _)
ExclusionFrom(token, text_, pos, k) ==
    IF k > Len(ENTROPY_EXCLUSIONS)
    THEN LET g == has_context_keyword(text_, pos, ENTROPY_CONTEXT_KEYWORDS)
         IN IF g = "panic" THEN PANIC
            ELSE IF g = "true" THEN <<"C","O","N","T","E","X","T">> ELSE << >>
    ELSE LET excl == ENTROPY_EXCLUSIONS[k]
             m    == MatchItems(token, 1, excl.items, 1)
         IN IF m.ok /\ (excl.items = << >> \/ m.ends[Len(excl.items)] = Len(token) + 1)
            THEN IF excl.keywords # << >>
                 THEN LET h == has_context_keyword(text_, pos, excl.keywords)
                      IN IF h = "panic" THEN PANIC
                         ELSE IF h = "true" THEN excl.label
                         ELSE ExclusionFrom(token, text_, pos, k + 1)
                 ELSE excl.label
            ELSE ExclusionFrom(token, text_, pos, k + 1)

matches_exclusion(token, text_, pos) == ExclusionFrom(token, text_, pos, 1)

\* format!("{}:{}:{:.1}", charset_abbrev, token.len(), entropy)
describe_entropy_structure(token, entropy, charset) ==
    LET abbrev == CASE charset = "hex" -> <<"h","e","x">>
                    [] charset = "base64" -> <<"b","6","4">>
                    [] charset = "alphanumeric" -> <<"a","l","n","u","m">>
                    [] OTHER -> <<"m","i","x">>
        tenths == (entropy + 50) \div 100
    IN abbrev \o <<":">> \o Dec(Len(token)) \o <<":">>
           \o Dec(tenths \div 10) \o <<".">> \o Dec(tenths % 10)

\* the replacements (start, end, text) that the loop over the tokens in
\* reverse order collects, from token k down, and whether a check panics
RECURSIVE ReplacementsFrom(_, _, _, _)
ReplacementsFrom(text_, tokens, k, cfg) ==
    IF k < 1 THEN [panic |-> FALSE, reps |-> << >>]
    ELSE LET token     == tokens[k]
             excluded  == matches_exclusion(token.text, text_, token.start)
             charset   == classify_charset(token.text)
             threshold == CASE charset = "hex" -> cfg.threshold_hex
                            [] charset = "base64" -> cfg.threshold_base64
                            [] OTHER -> cfg.threshold_alphanumeric
             entropy   == shannon_entropy(token.text)
             rest      == ReplacementsFrom(text_, tokens, k - 1, cfg)
         IN IF excluded = PANIC \/ rest.panic THEN [panic |-> TRUE, reps |-> << >>]
            ELSE IF excluded # << >> THEN rest
            ELSE IF entropy >= threshold
                 THEN [panic |-> FALSE,
                       reps |-> << [start |-> token.start, end |-> token.end,
                          text |-> <<"[","R","E","D","A","C","T","E","D",":",
                                     "H","I","G","H","_","E","N","T","R","O","P","Y",":">>
                                   \o describe_entropy_structure(token.text, entropy, charset)
                                   \o <<"]">>] >> \o rest.reps]
                 ELSE rest

\* faulty variant: the replacements are applied from the lowest start offset
\* to the highest, with the offsets computed on the original line
RECURSIVE ApplyReplacements_Ascending(_, _)
ApplyReplacements_Ascending(result, reps) ==
    IF Known(result) /\ reps = << >> THEN result
    ELSE LET r == reps[Len(reps)]
         IN ApplyReplacements_Ascending(
                Sub(result, 1, r.start) \o r.text \o Sub(result, r.end + 1, Len(result)),
                Sub(reps, 1, Len(reps) - 1))

\* the loop that applies the replacements in the order collected
RECURSIVE ApplyReplacements(_, _)
ApplyReplacements(result, reps) ==
    IF Known(result) /\ reps = << >> THEN result
    ELSE LET r == Head(reps)
         IN ApplyReplacements(
                Sub(result, 1, r.start) \o r.text \o Sub(result, r.end + 1, Len(result)),
                Tail(reps))

\* the loop over the tokens, in reverse order
ReplacementsOf(text_, tokens, cfg) ==
    ReplacementsFrom(text_, tokens, Len(tokens), cfg)

ApplyOrPanic(text_, reps) ==
    IF reps.panic THEN PANIC ELSE ApplyReplacements(text_, reps.reps)

redact_entropy(text_, cfg) ==
    ApplyOrPanic(text_,
                 ReplacementsOf(text_,
                                extract_tokens(text_, cfg.min_length, cfg.max_length),
                                cfg))

(***************************************************************************)
(* The redaction pipeline.                                                 *)
(***************************************************************************)
\* cfg is the FilterConfig, env the secrets with the order in which their map
\* yields them, ecfg the EntropyConfig; the result is PANIC if a pass panics
ValuesPass(result, env, cfg) ==
    IF cfg.values THEN redact_env_values(result, env.secrets, env.iter_order)
    ELSE result

PatternsPass(result, patterns, context_patterns, cfg) ==
    IF Known(result) /\ cfg.patterns
    THEN redact_patterns(result, patterns, context_patterns)
    ELSE result

EntropyPass(result, cfg, ecfg) ==
    IF Known(result) /\ cfg.entropy THEN redact_entropy(result, ecfg) ELSE result

redact_line(line, env, patterns, context_patterns, cfg, ecfg) ==
    EntropyPass(PatternsPass(ValuesPass(line, env, cfg),
                             patterns, context_patterns, cfg),
                cfg, ecfg)

\* the writes of flush_buffer_redacted: one per buffered line, up to a line
\* whose redaction panics
WritesUntilPanic(rs) ==
    LET bad == { i \in 1..Len(rs) : rs[i] = PANIC }
    IN IF bad = {} THEN [panic |-> FALSE, writes |-> rs]
       ELSE [panic |-> TRUE, writes |-> Sub(rs, 1, MinOf(bad) - 1)]

FlushWrites(buf, env, patterns, context_patterns, cfg, ecfg) ==
    WritesUntilPanic([i \in 1..Len(buf) |->
        redact_line(buf[i], env, patterns, context_patterns, cfg, ecfg)])

(***************************************************************************)
(* The stream driver and its private-key state machine.                    *)
(***************************************************************************)
VARIABLES
    config,     \* the FilterConfig resolved at startup
    secrets,    \* the SecretValueMap loaded at startup, with its iteration order
    inp,        \* the lines read so far: [raw, st, at], st the state in which
                \* the line was read, at the number of writes made before it
    tail,       \* the bytes that io::copy moved after a binary line
    state,      \* STATE_NORMAL, STATE_IN_PRIVATE_KEY, STATE_IN_PRIVATE_KEY_OVERFLOW
    buffer,     \* the lines of the private-key block being read
    out,        \* the payloads of the writes to stdout, in order
    pc,         \* "loop", "done" or "panic" for the driver;
                \* "call" or "return" for a function applied on its own
    text,       \* the argument of a function applied on its own
    result      \* its result

vars == << config, secrets, inp, tail, state, buffer, out, pc, text, result >>

NulByte == "\\x00"
Newline == "\n"

Str_dashes == <<"-","-","-","-","-">>
Str_PRIVATE_KEY == <<"P","R","I","V","A","T","E"," ","K","E","Y">>

\* -----BEGIN [A-Z ]*PRIVATE KEY-----
PRIVATE_KEY_BEGIN ==
    << Str(Str_dashes \o <<"B","E","G","I","N"," ">>),
       Rep(Upper \cup {" "}, 0, -1),
       Str(Str_PRIVATE_KEY \o Str_dashes) >>

\* -----END [A-Z ]*PRIVATE KEY-----
PRIVATE_KEY_END ==
    << Str(Str_dashes \o <<"E","N","D"," ">>),
       Rep(Upper \cup {" "}, 0, -1),
       Str(Str_PRIVATE_KEY \o Str_dashes) >>

\* writeln!(stdout_handle, "[REDACTED:PRIVATE_KEY:multiline]")
MarkerLine ==
    Marker(<<"P","R","I","V","A","T","E","_","K","E","Y">>,
           <<"m","u","l","t","i","l","i","n","e">>) \o << Newline >>

\* String::from_utf8_lossy: U+FFFD in the place of each invalid byte
from_utf8_lossy(bytes) ==
    Flatten([i \in 1..Len(bytes) |->
                IF bytes[i] = InvalidByte THEN ReplacementChar ELSE << bytes[i] >>])

\* the values the driver passes to every call of the pipeline
Patterns == IF config.patterns THEN build_patterns ELSE << >>
ContextPatterns == IF config.patterns THEN build_context_patterns ELSE << >>

\* the environment of the model's runs: its entropy overrides
EntropyOverrides ==
    [threshold |-> 2000, hex |-> -1, base64 |-> -1, min_len |-> 4, max_len |-> -1]
EntropyCfg == get_entropy_config(EntropyOverrides)

RedactLine(line) ==
    redact_line(line, secrets, Patterns, ContextPatterns, config, EntropyCfg)

\* faulty variant: private_key_begin is built whatever the configuration is
is_key_begin_Always(line) == IsMatch(line, PRIVATE_KEY_BEGIN)

\* private_key_begin / private_key_end are None when patterns are disabled
is_key_begin(line) == config.patterns /\ IsMatch(line, PRIVATE_KEY_BEGIN)
is_key_end(line) == config.patterns /\ IsMatch(line, PRIVATE_KEY_END)

HasNul(bytes) == \E i \in 1..Len(bytes) : bytes[i] = NulByte

(***************************************************************************)
(* The inputs of the model.  An input is a sequence of lines; each is a    *)
(* key-body line or one of the event lines below.  At most MaxEvents lines *)
(* of an input are event lines.  Key-body lines follow a BEGIN line, in a  *)
(* run of at most ShortRun lines; after a BEGIN line that is the first     *)
(* line of the input the run can also have one of the lengths around the   *)
(* buffer bound (MAX_PRIVATE_KEY_BUFFER - 1, MAX_PRIVATE_KEY_BUFFER) or    *)
(* the length LongRun.                                                     *)
(***************************************************************************)
Str_hunter22 == <<"h","u","n","t","e","r","2","2">>
KeyBodyLine == <<"M","I", Newline>>
BeginLine == Str_dashes \o <<"B","E","G","I","N"," ","R","S","A"," ">>
                 \o Str_PRIVATE_KEY \o Str_dashes \o << Newline >>
EndLine == Str_dashes \o <<"E","N","D"," ","R","S","A"," ">>
               \o Str_PRIVATE_KEY \o Str_dashes \o << Newline >>
TextLine == Str_password \o <<"=">> \o Str_hunter22 \o << Newline >>
InvalidLine == <<"k", InvalidByte, Newline>>
BinaryLine == <<"b", NulByte, Newline>>

Unterminated(line) == Sub(line, 1, Len(line) - 1)

TerminatedEvents == { BeginLine, EndLine, TextLine, InvalidLine }
EventLines == TerminatedEvents \cup { Unterminated(TextLine) }
BinaryLines == { BinaryLine }
BinaryRests == { << >>, KeyBodyLine \o EndLine \o Unterminated(TextLine) }

DriverEnv == (Str_GH_TOKEN :> Str_hunter22) @@ (Str_HOME :> Str_password)

LongRun == MAX_PRIVATE_KEY_BUFFER + 50

\* the number of key-body lines at the end of the lines read
TrailingRun(ls) ==
    LET events == { n \in 1..Len(ls) : ls[n].raw # KeyBodyLine }
    IN IF events = {} THEN Len(ls) ELSE Len(ls) - MaxOf(events)

\* the input can end, or go on with an event line, after a run of this length
AtStop(run) ==
    run \in (0..ShortRun) \cup { MAX_PRIVATE_KEY_BUFFER - 1,
                                 MAX_PRIVATE_KEY_BUFFER, LongRun }

EventCount(ls) == Cardinality({ i \in 1..Len(ls) : ls[i].raw # KeyBodyLine })

\* read_until can return another line
MoreInput ==
    /\ inp # << >> => inp[Len(inp)].raw[Len(inp[Len(inp)].raw)] = Newline

CanRead(line) ==
    /\ MoreInput
    /\ LET run == TrailingRun(inp)
       IN IF line = KeyBodyLine
          THEN /\ Len(inp) > run
               /\ inp[Len(inp) - run].raw = BeginLine
               /\ \/ run < ShortRun
                  \/ run < LongRun /\ Len(inp) - run = 1
          ELSE /\ AtStop(run)
               /\ EventCount(inp) < MaxEvents

InputLines == EventLines \cup { KeyBodyLine }

Record(line) == Append(inp, [raw |-> line, st |-> state, at |-> Len(out)])

(***************************************************************************)
(* Startup.                                                                *)
(***************************************************************************)
FilterConfigs == [values : BOOLEAN, patterns : BOOLEAN, entropy : BOOLEAN]

\* the secrets are loaded only if the values filter is enabled
Secrets(cfg, env, order) ==
    IF cfg.values THEN [secrets |-> load_secrets(env), iter_order |-> order]
    ELSE [secrets |-> << >>, iter_order |-> << >>]

Init ==
    /\ config \in FilterConfigs
    /\ \E o \in IterOrders(DOMAIN load_secrets(DriverEnv)) :
           secrets = Secrets(config, DriverEnv, o)
    /\ inp = << >>
    /\ tail = << >>
    /\ state = STATE_NORMAL
    /\ buffer = << >>
    /\ out = << >>
    /\ pc = "loop"
    /\ text = << >>
    /\ result = << >>

(***************************************************************************)
(* The writes of the arms.                                                 *)
(***************************************************************************)
\* the null-byte arm after the flush f of the buffer
Passthrough(f, line, rest) ==
    IF f.panic
    THEN /\ out' = out \o f.writes
         /\ pc' = "panic"
         /\ tail' = tail
         /\ buffer' = buffer
    ELSE /\ out' = out \o f.writes \o << line >>
                       \o (IF rest = << >> THEN << >> ELSE << rest >>)
         /\ pc' = "done"
         /\ tail' = rest
         /\ buffer' = << >>

\* the write of the result r of redact_line
WriteRedacted(r) ==
    IF r = PANIC
    THEN /\ pc' = "panic"
         /\ UNCHANGED << state, buffer, out >>
    ELSE /\ out' = Append(out, r)
         /\ UNCHANGED << state, buffer, pc >>

\* the write of the flush f of the buffer at the end of the input
WriteFlush(f) ==
    /\ out' = out \o f.writes
    /\ pc' = IF f.panic THEN "panic" ELSE "done"

(***************************************************************************)
(* Faulty variants of the arms: each differs from the arm it is named      *)
(* after in one decision.  The properties of the driver are checked to     *)
(* fail for them.                                                          *)
(***************************************************************************)
\* the END line flushes the block instead of replacing it by the marker
ReadInPrivateKey_EndFlushes(line) ==
    /\ pc = "loop"
    /\ state = STATE_IN_PRIVATE_KEY
    /\ ~HasNul(line)
    /\ CanRead(line)
    /\ LET decoded == from_utf8_lossy(line)
           pushed  == Append(buffer, decoded)
       IN IF is_key_end(decoded)
          THEN /\ out' = out \o pushed
               /\ buffer' = << >>
               /\ state' = STATE_NORMAL
          ELSE IF Len(pushed) > MAX_PRIVATE_KEY_BUFFER
          THEN /\ out' = Append(out, MarkerLine)
               /\ buffer' = << >>
               /\ state' = STATE_IN_PRIVATE_KEY_OVERFLOW
          ELSE /\ buffer' = pushed
               /\ UNCHANGED << out, state >>
    /\ inp' = Record(line)
    /\ UNCHANGED << config, secrets, tail, pc, text, result >>

\* the overflow flushes the buffer through the pipeline and returns to
\* NORMAL, as the driver of rust/src/main.rs does
ReadInPrivateKey_OverflowFlushes(line) ==
    /\ pc = "loop"
    /\ state = STATE_IN_PRIVATE_KEY
    /\ ~HasNul(line)
    /\ CanRead(line)
    /\ LET decoded == from_utf8_lossy(line)
           pushed  == Append(buffer, decoded)
       IN IF is_key_end(decoded)
          THEN /\ out' = Append(out, MarkerLine)
               /\ buffer' = << >>
               /\ state' = STATE_NORMAL
          ELSE IF Len(pushed) > MAX_PRIVATE_KEY_BUFFER
          THEN /\ out' = out \o FlushWrites(pushed, secrets, Patterns,
                                            ContextPatterns, config, EntropyCfg).writes
               /\ buffer' = << >>
               /\ state' = STATE_NORMAL
          ELSE /\ buffer' = pushed
               /\ UNCHANGED << out, state >>
    /\ inp' = Record(line)
    /\ UNCHANGED << config, secrets, tail, pc, text, result >>

\* a BEGIN line read during the overflow starts a new block
ReadOverflow_BeginRestarts(line) ==
    /\ pc = "loop"
    /\ state = STATE_IN_PRIVATE_KEY_OVERFLOW
    /\ ~HasNul(line)
    /\ CanRead(line)
    /\ LET decoded == from_utf8_lossy(line)
       IN IF is_key_end(decoded)
          THEN /\ state' = STATE_NORMAL
               /\ buffer' = buffer
          ELSE IF is_key_begin(decoded)
          THEN /\ state' = STATE_IN_PRIVATE_KEY
               /\ buffer' = << decoded >>
          ELSE /\ state' = state
               /\ buffer' = buffer
    /\ inp' = Record(line)
    /\ UNCHANGED << config, secrets, tail, out, pc, text, result >>

\* the end of the input flushes an open block through the pipeline
ReadEof_FlushesOpenBlock ==
    /\ pc = "loop"
    /\ AtStop(TrailingRun(inp))
    /\ IF state = STATE_IN_PRIVATE_KEY_OVERFLOW
       THEN /\ out' = out
            /\ pc' = "done"
       ELSE WriteFlush(FlushWrites(buffer, secrets, Patterns, ContextPatterns,
                                   config, EntropyCfg))
    /\ UNCHANGED << config, secrets, inp, tail, state, buffer, text, result >>

\* the overflow writes the marker and leaves the lines in the buffer
ReadInPrivateKey_OverflowKeepsBuffer(line) ==
    /\ pc = "loop"
    /\ state = STATE_IN_PRIVATE_KEY
    /\ ~HasNul(line)
    /\ CanRead(line)
    /\ LET decoded == from_utf8_lossy(line)
           pushed  == Append(buffer, decoded)
       IN IF is_key_end(decoded)
          THEN /\ out' = Append(out, MarkerLine)
               /\ buffer' = << >>
               /\ state' = STATE_NORMAL
          ELSE IF Len(pushed) > MAX_PRIVATE_KEY_BUFFER
          THEN /\ out' = Append(out, MarkerLine)
               /\ buffer' = pushed
               /\ state' = STATE_IN_PRIVATE_KEY_OVERFLOW
          ELSE /\ buffer' = pushed
               /\ UNCHANGED << out, state >>
    /\ inp' = Record(line)
    /\ UNCHANGED << config, secrets, tail, pc, text, result >>

\* a BEGIN line read inside a block ends it with a marker and starts a block
ReadInPrivateKey_BeginRestarts(line) ==
    /\ pc = "loop"
    /\ state = STATE_IN_PRIVATE_KEY
    /\ ~HasNul(line)
    /\ CanRead(line)
    /\ LET decoded == from_utf8_lossy(line)
           pushed  == Append(buffer, decoded)
       IN IF is_key_end(decoded)
          THEN /\ out' = Append(out, MarkerLine)
               /\ buffer' = << >>
               /\ state' = STATE_NORMAL
          ELSE IF is_key_begin(decoded)
          THEN /\ out' = Append(out, MarkerLine)
               /\ buffer' = << decoded >>
               /\ state' = state
          ELSE IF Len(pushed) > MAX_PRIVATE_KEY_BUFFER
          THEN /\ out' = Append(out, MarkerLine)
               /\ buffer' = << >>
               /\ state' = STATE_IN_PRIVATE_KEY_OVERFLOW
          ELSE /\ buffer' = pushed
               /\ UNCHANGED << out, state >>
    /\ inp' = Record(line)
    /\ UNCHANGED << config, secrets, tail, pc, text, result >>

\* a BEGIN line read in NORMAL is written like any other line
ReadNormal_NoBlock(line) ==
    /\ pc = "loop"
    /\ state = STATE_NORMAL
    /\ ~HasNul(line)
    /\ CanRead(line)
    /\ WriteRedacted(RedactLine(from_utf8_lossy(line)))
    /\ inp' = Record(line)
    /\ UNCHANGED << config, secrets, tail, text, result >>

\* a line with a null byte clears the buffer without flushing it
ReadBinary_DropsBuffer(line, rest) ==
    /\ pc = "loop"
    /\ HasNul(line)
    /\ CanRead(line)
    /\ Passthrough(FlushWrites(<< >>, secrets, Patterns, ContextPatterns, config,
                               EntropyCfg), line, rest)
    /\ inp' = Record(line)
    /\ UNCHANGED << config, secrets, state, text, result >>

(***************************************************************************)
(* The loop body, one action for each arm, and the end of the input.       *)
(***************************************************************************)
\* a line with a null byte: the buffer is flushed through the pipeline, the
\* line and the rest of the input are copied, and main returns
ReadBinary(line, rest) ==
    /\ pc = "loop"
    /\ HasNul(line)
    /\ CanRead(line)
    /\ Passthrough(FlushWrites(buffer, secrets, Patterns, ContextPatterns, config,
                               EntropyCfg), line, rest)
    /\ inp' = Record(line)
    /\ UNCHANGED << config, secrets, state, text, result >>

ReadNormal(line) ==
    /\ pc = "loop"
    /\ state = STATE_NORMAL
    /\ ~HasNul(line)
    /\ CanRead(line)
    /\ LET decoded == from_utf8_lossy(line)
       IN IF is_key_begin(decoded)
          THEN /\ state' = STATE_IN_PRIVATE_KEY
               /\ buffer' = << decoded >>
               /\ UNCHANGED << out, pc >>
          ELSE WriteRedacted(RedactLine(decoded))
    /\ inp' = Record(line)
    /\ UNCHANGED << config, secrets, tail, text, result >>

ReadInPrivateKey(line) ==
    /\ pc = "loop"
    /\ state = STATE_IN_PRIVATE_KEY
    /\ ~HasNul(line)
    /\ CanRead(line)
    /\ LET decoded == from_utf8_lossy(line)
           pushed  == Append(buffer, decoded)
       IN IF is_key_end(decoded)
          THEN /\ out' = Append(out, MarkerLine)
               /\ buffer' = << >>
               /\ state' = STATE_NORMAL
          ELSE IF Len(pushed) > MAX_PRIVATE_KEY_BUFFER
          THEN /\ out' = Append(out, MarkerLine)
               /\ buffer' = << >>
               /\ state' = STATE_IN_PRIVATE_KEY_OVERFLOW
          ELSE /\ buffer' = pushed
               /\ UNCHANGED << out, state >>
    /\ inp' = Record(line)
    /\ UNCHANGED << config, secrets, tail, pc, text, result >>

ReadOverflow(line) ==
    /\ pc = "loop"
    /\ state = STATE_IN_PRIVATE_KEY_OVERFLOW
    /\ ~HasNul(line)
    /\ CanRead(line)
    /\ LET decoded == from_utf8_lossy(line)
       IN IF is_key_end(decoded)
          THEN state' = STATE_NORMAL
          ELSE state' = state
    /\ inp' = Record(line)
    /\ UNCHANGED << config, secrets, tail, buffer, out, pc, text, result >>

\* read_until returns Ok(0): the loop ends and the remaining state is handled
ReadEof ==
    /\ pc = "loop"
    /\ AtStop(TrailingRun(inp))
    /\ IF state = STATE_IN_PRIVATE_KEY
       THEN /\ out' = Append(out, MarkerLine)
            /\ pc' = "done"
       ELSE IF state = STATE_IN_PRIVATE_KEY_OVERFLOW
       THEN /\ out' = out
            /\ pc' = "done"
       ELSE WriteFlush(FlushWrites(buffer, secrets, Patterns, ContextPatterns,
                                   config, EntropyCfg))
    /\ UNCHANGED << config, secrets, inp, tail, state, buffer, text, result >>

Next ==
    \/ \E line \in BinaryLines, rest \in BinaryRests : ReadBinary(line, rest)
    \/ \E line \in InputLines : ReadNormal(line)
    \/ \E line \in InputLines : ReadInPrivateKey(line)
    \/ \E line \in InputLines : ReadOverflow(line)
    \/ ReadEof

Spec == Init /\ [][Next]_vars

(***************************************************************************)
(* redact_env_values applied on its own: Init draws the environment, the   *)
(* order of the HashMap and the text; the action applies the function.     *)
(* An environment has at most MaxEntries variables, a text is made of at   *)
(* most MaxPieces pieces.                                                  *)
(***************************************************************************)
Str_password_1 == Str_password \o <<"-","1">>
Str_short == <<"s","h","o","r","t">>

ValueNames == { Str_GH_TOKEN, Str_DB_PASSWORD, Str_HOME }
ValueValues == { Str_password, Str_password_1, Str_hunter22, Str_short }

ValueEnvs ==
    UNION { [names -> ValueValues] :
              names \in { ns \in SUBSET ValueNames : Cardinality(ns) <= MaxEntries } }

ValuePieces == { Str_password, Str_password_1, Str_hunter22, <<" ">> }

ValueTexts ==
    UNION { { Flatten(ps) : ps \in [1..k -> ValuePieces] } : k \in 0..MaxPieces }

InitValues ==
    /\ config = [values |-> TRUE, patterns |-> FALSE, entropy |-> FALSE]
    /\ \E env \in ValueEnvs :
           \E o \in IterOrders(DOMAIN load_secrets(env)) :
               secrets = Secrets(config, env, o)
    /\ text \in ValueTexts
    /\ result = << >>
    /\ pc = "call"
    /\ inp = << >>
    /\ tail = << >>
    /\ state = STATE_NORMAL
    /\ buffer = << >>
    /\ out = << >>

CallRedactEnvValues ==
    /\ pc = "call"
    /\ result' = redact_env_values(text, secrets.secrets, secrets.iter_order)
    /\ pc' = "return"
    /\ UNCHANGED << config, secrets, inp, tail, state, buffer, out, text >>

\* the function applied to its own result, with the same map
CallRedactEnvValuesAgain ==
    /\ pc = "return"
    /\ text' = result
    /\ result' = redact_env_values(result, secrets.secrets, secrets.iter_order)
    /\ pc' = "again"
    /\ UNCHANGED << config, secrets, inp, tail, state, buffer, out >>

NextValues == CallRedactEnvValues \/ CallRedactEnvValuesAgain

SpecValues == InitValues /\ [][NextValues]_vars

(***************************************************************************)
(* redact_line and redact_patterns applied on their own: Init draws the    *)
(* configuration and a text of at most MaxPieces pieces; the actions apply *)
(* the function, and redact_line once more to its own result.              *)
(***************************************************************************)
\* ghp_ and 36 characters of [A-Za-z0-9]
GhpToken == <<"g","h","p","_">> \o [i \in 1..36 |-> IF i % 2 = 0 THEN "1" ELSE "a"]
GitUrl == <<":","/","/","u",":">> \o Str_hunter22 \o <<"@">>

LinePieces ==
    { Str_password \o <<" ">>, Str_password \o <<"=">>, <<"t","o","k","e","n","=">>,
      GhpToken, GitUrl, Str_hunter22 }

LineTexts ==
    UNION { { Flatten(ps) : ps \in [1..k -> LinePieces] } : k \in 0..MaxPieces }

InitLine ==
    /\ config \in FilterConfigs
    /\ \E o \in IterOrders(DOMAIN load_secrets(DriverEnv)) :
           secrets = Secrets(config, DriverEnv, o)
    /\ text \in LineTexts
    /\ result = << >>
    /\ pc = "call"
    /\ inp = << >>
    /\ tail = << >>
    /\ state = STATE_NORMAL
    /\ buffer = << >>
    /\ out = << >>

CallRedactLine ==
    /\ pc = "call"
    /\ result' = RedactLine(text)
    /\ pc' = "return"
    /\ UNCHANGED << config, secrets, inp, tail, state, buffer, out, text >>

\* the pipeline applied to its own result, under the same configuration
CallRedactLineAgain ==
    /\ pc = "return"
    /\ result # PANIC
    /\ text' = result
    /\ result' = RedactLine(result)
    /\ pc' = "again"
    /\ UNCHANGED << config, secrets, inp, tail, state, buffer, out >>

NextLine == CallRedactLine \/ CallRedactLineAgain

SpecLine == InitLine /\ [][NextLine]_vars

(***************************************************************************)
(* describe_structure applied on its own: Init draws the token, a head of  *)
(* at most MaxTokenLen characters, alone, padded to a length around        *)
(* LONG_THRESHOLD, or preceded by letters up to a first part of 12 or 13   *)
(* characters; the action applies the function.                            *)
(***************************************************************************)
TokenAlphabet == { "a", "1", "-", "_", "." }

TokenHeads == UNION { [1..k -> TokenAlphabet] : k \in 0..MaxTokenLen }

\* the head followed by letters up to the length n
Pad(head, n) == head \o [i \in 1..(n - Len(head)) |-> "x"]

\* the head preceded by letters up to the length n
Lead(head, n) == [i \in 1..(n - Len(head)) |-> "x"] \o head

StructureTokens ==
    TokenHeads \cup { Pad(h, n) : h \in TokenHeads,
                                  n \in { LONG_THRESHOLD - 1, LONG_THRESHOLD,
                                          LONG_THRESHOLD + 3 } }
               \cup { Lead(h, n) : h \in TokenHeads \ { << >> },
                                   n \in { 13, 14 } }

InitStructure ==
    /\ text \in StructureTokens
    /\ result = << >>
    /\ pc = "call"
    /\ config = [values |-> FALSE, patterns |-> FALSE, entropy |-> FALSE]
    /\ secrets = Secrets(config, DriverEnv, << >>)
    /\ inp = << >>
    /\ tail = << >>
    /\ state = STATE_NORMAL
    /\ buffer = << >>
    /\ out = << >>

CallDescribeStructure ==
    /\ pc = "call"
    /\ result' = describe_structure(text)
    /\ pc' = "return"
    /\ UNCHANGED << config, secrets, inp, tail, state, buffer, out, text >>

NextStructure == CallDescribeStructure

SpecStructure == InitStructure /\ [][NextStructure]_vars

(***************************************************************************)
(* redact_entropy applied on its own, under the EntropyConfig of the       *)
(* model's runs: Init draws the line, at most MaxWords pieces (tokens of   *)
(* high and of low entropy, a word, delimiters, a context keyword, U+FFFD, *)
(* a filler that moves the next token past the 50-byte window); the action *)
(* applies the function.                                                   *)
(***************************************************************************)
Str_a1b2 == <<"a","1","b","2">>
Str_c3d4e5 == <<"c","3","d","4","e","5">>
Str_aa11 == <<"a","a","1","1">>
Str_abcd == <<"a","b","c","d">>
Str_hash == <<"h","a","s","h"," ">>
\* 47 letters and a blank
Filler == [i \in 1..48 |-> IF i = 48 THEN " " ELSE "x"]

EntropyPieces ==
    { Str_a1b2, Str_c3d4e5, Str_aa11, Str_abcd, Str_hash, <<" ">>, <<"=", ":">>,
      ReplacementChar, Filler }

EntropyTexts ==
    { Flatten(ps) : ps \in UNION { [1..k -> EntropyPieces] : k \in 0..MaxWords } }

InitEntropy ==
    /\ text \in EntropyTexts
    /\ result = << >>
    /\ pc = "call"
    /\ config = [values |-> FALSE, patterns |-> FALSE, entropy |-> TRUE]
    /\ secrets = Secrets(config, DriverEnv, << >>)
    /\ inp = << >>
    /\ tail = << >>
    /\ state = STATE_NORMAL
    /\ buffer = << >>
    /\ out = << >>

CallRedactEntropy ==
    /\ pc = "call"
    /\ result' = redact_entropy(text, EntropyCfg)
    /\ pc' = IF result' = PANIC THEN "panic" ELSE "return"
    /\ UNCHANGED << config, secrets, inp, tail, state, buffer, out, text >>

NextEntropy == CallRedactEntropy

SpecEntropy == InitEntropy /\ [][NextEntropy]_vars

(***************************************************************************)
(* parse_filter_config.  args is the argument vector without the program   *)
(* name, env the environment, a function from the names of the variables   *)
(* that are set to their values.  The result is Ok with a FilterConfig,    *)
(* Err, or the exit of the process with a status.                          *)
(***************************************************************************)
Str_values == <<"v","a","l","u","e","s">>
Str_patterns == <<"p","a","t","t","e","r","n","s">>
Str_entropy == <<"e","n","t","r","o","p","y">>
Str_all == <<"a","l","l">>
Str_f == <<"-","f">>
Str_filter == <<"-","-","f","i","l","t","e","r">>
Str_filter_eq == Str_filter \o <<"=">>
Str_h == <<"-","h">>
Str_help == <<"-","-","h","e","l","p">>
Str_v == <<"-","v">>
Str_version == <<"-","-","v","e","r","s","i","o","n">>

\* the compile-time default of the entropy filter
ENTROPY_ENABLED_DEFAULT == FALSE

NoConfig == [values |-> FALSE, patterns |-> FALSE, entropy |-> FALSE]
Ok(c) == [kind |-> "ok", status |-> 0, config |-> c]
Err == [kind |-> "err", status |-> 1, config |-> NoConfig]
Exit(n) == [kind |-> "exit", status |-> n, config |-> NoConfig]

\* str::starts_with
starts_with(s, prefix) == Len(prefix) <= Len(s) /\ OccursAt(s, prefix, 1)

\* str::trim
trim(s) ==
    LET keep == { i \in 1..Len(s) : s[i] \notin WhiteSpace }
    IN IF keep = {} THEN << >> ELSE Sub(s, MinOf(keep), MaxOf(keep))

is_falsy(val) ==
    to_lowercase(val) \in { <<"0">>, <<"f","a","l","s","e">>, <<"n","o">> }
is_truthy(val) ==
    to_lowercase(val) \in { <<"1">>, <<"t","r","u","e">>, <<"y","e","s">> }

IsKnownFlag(arg) ==
    \/ arg \in { Str_v, Str_version, Str_h, Str_help, Str_f, Str_filter }
    \/ starts_with(arg, Str_filter_eq)

\* the validation loop from argument i on: an unknown option is met
RECURSIVE UnknownOption(_, _)
UnknownOption(args, i) ==
    IF i > Len(args) THEN FALSE
    ELSE IF starts_with(args[i], <<"-">>)
         THEN IF ~IsKnownFlag(args[i]) THEN TRUE
              ELSE UnknownOption(args, IF args[i] \in { Str_f, Str_filter }
                                       THEN i + 2 ELSE i + 1)
         ELSE UnknownOption(args, i + 1)

\* cli_filter: the value of the first --filter=X, -f X or --filter X
CliFilter(args) ==
    LET hits == { i \in 1..Len(args) :
                    \/ starts_with(args[i], Str_filter_eq)
                    \/ args[i] \in { Str_f, Str_filter } /\ i + 1 <= Len(args) }
    IN IF hits = {} THEN [some |-> FALSE, val |-> << >>]
       ELSE [some |-> TRUE,
             val  |-> IF starts_with(args[MinOf(hits)], Str_filter_eq)
                      THEN Sub(args[MinOf(hits)], Len(Str_filter_eq) + 1,
                               Len(args[MinOf(hits)]))
                      ELSE args[MinOf(hits) + 1]]

\* the parts of the filter value, trimmed and lower-cased
FilterParts(filter_str) ==
    [k \in 1..Len(Split(filter_str, ",")) |->
        to_lowercase(trim(Split(filter_str, ",")[k]))]

\* faulty variant: valid_count is not tested
ParseCli_NoValidCount(parts) ==
    LET has(name) == \E k \in 1..Len(parts) : parts[k] = name
    IN Ok([values   |-> has(Str_values) \/ has(Str_all),
           patterns |-> has(Str_patterns) \/ has(Str_all),
           entropy  |-> has(Str_entropy) \/ has(Str_all)])

\* the loop over the parts and the test of valid_count
ParseCli(parts) ==
    LET has(name) == \E k \in 1..Len(parts) : parts[k] = name
        valid_count == Cardinality({ k \in 1..Len(parts) :
                           parts[k] \in { Str_values, Str_patterns, Str_entropy,
                                          Str_all } })
    IN IF valid_count = 0 THEN Err
       ELSE Ok([values   |-> has(Str_values) \/ has(Str_all),
                patterns |-> has(Str_patterns) \/ has(Str_all),
                entropy  |-> has(Str_entropy) \/ has(Str_all)])

ParseEnv(env) ==
    Ok([values   |-> IF "SECRETS_FILTER_VALUES" \in DOMAIN env
                     THEN ~is_falsy(env["SECRETS_FILTER_VALUES"]) ELSE TRUE,
        patterns |-> IF "SECRETS_FILTER_PATTERNS" \in DOMAIN env
                     THEN ~is_falsy(env["SECRETS_FILTER_PATTERNS"]) ELSE TRUE,
        entropy  |-> IF "SECRETS_FILTER_ENTROPY" \in DOMAIN env
                     THEN is_truthy(env["SECRETS_FILTER_ENTROPY"])
                     ELSE ENTROPY_ENABLED_DEFAULT])

\* faulty variant: the filters of the command line are merged with those of
\* the environment
parse_filter_config_Merges(args, env) ==
    IF \E i \in 1..Len(args) : args[i] \in { Str_version, Str_v } THEN Exit(0)
    ELSE IF \E i \in 1..Len(args) : args[i] \in { Str_help, Str_h } THEN Exit(0)
    ELSE IF UnknownOption(args, 1) THEN Exit(1)
    ELSE IF CliFilter(args).some
    THEN IF ParseCli(FilterParts(CliFilter(args).val)).kind = "err" THEN Err
         ELSE Ok([values   |-> \/ ParseCli(FilterParts(CliFilter(args).val)).config.values
                               \/ ParseEnv(env).config.values,
                  patterns |-> \/ ParseCli(FilterParts(CliFilter(args).val)).config.patterns
                               \/ ParseEnv(env).config.patterns,
                  entropy  |-> \/ ParseCli(FilterParts(CliFilter(args).val)).config.entropy
                               \/ ParseEnv(env).config.entropy])
    ELSE ParseEnv(env)

parse_filter_config(args, env) ==
    IF \E i \in 1..Len(args) : args[i] \in { Str_version, Str_v } THEN Exit(0)
    ELSE IF \E i \in 1..Len(args) : args[i] \in { Str_help, Str_h } THEN Exit(0)
    ELSE IF UnknownOption(args, 1) THEN Exit(1)
    ELSE IF CliFilter(args).some THEN ParseCli(FilterParts(CliFilter(args).val))
    ELSE ParseEnv(env)

(***************************************************************************)
(* parse_filter_config applied on its own: Init draws the arguments, with  *)
(* a filter value of at most MaxParts parts, and the environment (text     *)
(* holds both); the action applies the function.                           *)
(***************************************************************************)
FilterWords ==
    { Str_values, <<"P","a","t","t","e","r","n","s">>, <<" ">> \o Str_entropy,
      <<"A","L","L">>, << >>, <<"b","o","g","u","s">> }

FilterValues ==
    UNION { { Join(ps, ",") : ps \in [1..k -> FilterWords] } : k \in 1..MaxParts }

ConfigArgs ==
    { << >>, << Str_f >>, << Str_h >>, << Str_version >>, << <<"-","x">> >>,
      << <<"l","o","g">> >> }
    \cup { << Str_f, v >> : v \in FilterValues }
    \cup { << Str_filter, v >> : v \in FilterValues }
    \cup { << Str_filter_eq \o v >> : v \in FilterValues }

ConfigVars ==
    { "SECRETS_FILTER_VALUES", "SECRETS_FILTER_PATTERNS", "SECRETS_FILTER_ENTROPY" }
ConfigVarValues == { <<"N","o">>, <<"1">>, <<"o","n">> }
ConfigEnvs == UNION { [names -> ConfigVarValues] : names \in SUBSET ConfigVars }

InitConfig ==
    /\ \E args \in ConfigArgs, env \in ConfigEnvs : text = [args |-> args, env |-> env]
    /\ result = << >>
    /\ pc = "call"
    /\ config = NoConfig
    /\ secrets = Secrets(config, DriverEnv, << >>)
    /\ inp = << >>
    /\ tail = << >>
    /\ state = STATE_NORMAL
    /\ buffer = << >>
    /\ out = << >>

CallParseFilterConfig ==
    /\ pc = "call"
    /\ result' = parse_filter_config(text.args, text.env)
    /\ pc' = "return"
    /\ UNCHANGED << config, secrets, inp, tail, state, buffer, out, text >>

NextConfig == CallParseFilterConfig

SpecConfig == InitConfig /\ [][NextConfig]_vars

(***************************************************************************)
(* The stream driver of rust/src/main.rs.  It reads with                   *)
(* BufRead::lines, has the states NORMAL and IN_PRIVATE_KEY only and no    *)
(* entropy filter; its redact_line is the values pass followed by the      *)
(* patterns pass.  (Its redact_patterns trims the secret of a context      *)
(* pattern before describing it; no line of the inputs of the model has a  *)
(* context secret with blanks around it.)  The inputs are those of the     *)
(* driver above.                                                           *)
(***************************************************************************)
\* an item of BufRead::lines: an error for invalid UTF-8, else the line
\* without its "\n" or "\r\n"
LinesItem(raw) ==
    LET noLf == IF raw # << >> /\ raw[Len(raw)] = Newline
                THEN Sub(raw, 1, Len(raw) - 1) ELSE raw
        noCr == IF noLf # << >> /\ noLf[Len(noLf)] = "\r"
                THEN Sub(noLf, 1, Len(noLf) - 1) ELSE noLf
    IN [err  |-> \E i \in 1..Len(raw) : raw[i] = InvalidByte,
        line |-> noCr \o << Newline >>]

\* the writes of the loop over the rest of the input after a binary line
RestWrites(rest) ==
    LET parts == Split(rest, Newline)
        n     == IF parts[Len(parts)] = << >> THEN Len(parts) - 1 ELSE Len(parts)
    IN [k \in 1..n |-> LinesItem(parts[k]).line]

RustConfigs == { c \in FilterConfigs : ~c.entropy }

InitRust ==
    /\ config \in RustConfigs
    /\ \E o \in IterOrders(DOMAIN load_secrets(DriverEnv)) :
           secrets = Secrets(config, DriverEnv, o)
    /\ inp = << >>
    /\ tail = << >>
    /\ state = STATE_NORMAL
    /\ buffer = << >>
    /\ out = << >>
    /\ pc = "loop"
    /\ text = << >>
    /\ result = << >>

\* flush_buffer_redacted of rust/src/main.rs
RustFlush(buf) ==
    FlushWrites(buf, secrets, Patterns, ContextPatterns, config, EntropyCfg).writes

RustReadBinary(line, rest) ==
    /\ pc = "loop"
    /\ HasNul(line)
    /\ CanRead(line)
    /\ ~LinesItem(line).err
    /\ out' = out \o RustFlush(buffer) \o << LinesItem(line).line >> \o RestWrites(rest)
    /\ buffer' = << >>
    /\ tail' = rest
    /\ pc' = "done"
    /\ inp' = Record(line)
    /\ UNCHANGED << config, secrets, state, text, result >>

RustReadNormal(line) ==
    /\ pc = "loop"
    /\ state = STATE_NORMAL
    /\ ~HasNul(line)
    /\ CanRead(line)
    /\ ~LinesItem(line).err
    /\ IF is_key_begin(LinesItem(line).line)
       THEN /\ state' = STATE_IN_PRIVATE_KEY
            /\ buffer' = << LinesItem(line).line >>
            /\ out' = out
       ELSE /\ out' = Append(out, RedactLine(LinesItem(line).line))
            /\ UNCHANGED << state, buffer >>
    /\ inp' = Record(line)
    /\ UNCHANGED << config, secrets, tail, pc, text, result >>

RustReadInPrivateKey(line) ==
    /\ pc = "loop"
    /\ state = STATE_IN_PRIVATE_KEY
    /\ ~HasNul(line)
    /\ CanRead(line)
    /\ ~LinesItem(line).err
    /\ IF is_key_end(LinesItem(line).line)
       THEN /\ out' = Append(out, MarkerLine)
            /\ buffer' = << >>
            /\ state' = STATE_NORMAL
       ELSE IF Len(buffer) + 1 > MAX_PRIVATE_KEY_BUFFER
       THEN /\ out' = out \o RustFlush(Append(buffer, LinesItem(line).line))
            /\ buffer' = << >>
            /\ state' = STATE_NORMAL
       ELSE /\ buffer' = Append(buffer, LinesItem(line).line)
            /\ UNCHANGED << out, state >>
    /\ inp' = Record(line)
    /\ UNCHANGED << config, secrets, tail, pc, text, result >>

\* the loop ends at the end of the input or at a line that is not valid
\* UTF-8, and the buffer is flushed
RustReadEof ==
    /\ pc = "loop"
    /\ \/ AtStop(TrailingRun(inp))
       \/ \E line \in InputLines : CanRead(line) /\ LinesItem(line).err
    /\ out' = out \o RustFlush(buffer)
    /\ pc' = "done"
    /\ UNCHANGED << config, secrets, inp, tail, state, buffer, text, result >>

NextRust ==
    \/ \E line \in BinaryLines, rest \in BinaryRests : RustReadBinary(line, rest)
    \/ \E line \in InputLines : RustReadNormal(line)
    \/ \E line \in InputLines : RustReadInPrivateKey(line)
    \/ RustReadEof

SpecRust == InitRust /\ [][NextRust]_vars

(***************************************************************************)
(* Properties of the driver.                                               *)
(*                                                                         *)
(* Reads(line) is a step that reads the line; Written is the writes of a   *)
(* step.                                                                   *)
(***************************************************************************)
Reads(line) == Len(inp') = Len(inp) + 1 /\ inp'[Len(inp')].raw = line
NulFreeLines == { l \in InputLines : ~HasNul(l) }
Written == Sub(out', Len(out) + 1, Len(out'))
EofStep == pc = "loop" /\ pc' # "loop" /\ inp' = inp

\* the lines i..j of the input, as read
RawLines(i, j) == [k \in 1..(j - i + 1) |-> inp[i + k - 1].raw]

\* the bytes of the input and of the output
InputBytes == Flatten(RawLines(1, Len(inp))) \o tail
OutputBytes == Flatten(out)

\* C1: with the patterns filter enabled, in a step that reads a line without
\* a null byte: a line matching BEGIN read in NORMAL writes nothing and starts
\* the block (state IN_PRIVATE_KEY, buffer = that line); a line not matching
\* END that is buffered in IN_PRIVATE_KEY writes nothing; a line matching END
\* read in IN_PRIVATE_KEY writes exactly the one marker line, empties the
\* buffer and returns the state to NORMAL.
C1_BlockCollapsed ==
    [][ \A l \in NulFreeLines : (config.patterns /\ Reads(l)) =>
          LET line == from_utf8_lossy(l)
          IN /\ (state = STATE_NORMAL /\ IsMatch(line, PRIVATE_KEY_BEGIN)) =>
                    /\ Written = << >>
                    /\ state' = STATE_IN_PRIVATE_KEY
                    /\ buffer' = << line >>
             /\ (state = STATE_IN_PRIVATE_KEY /\ state' = STATE_IN_PRIVATE_KEY) =>
                    /\ Written = << >>
                    /\ buffer' = Append(buffer, line)
             /\ (state = STATE_IN_PRIVATE_KEY /\ IsMatch(line, PRIVATE_KEY_END)) =>
                    /\ Written = << MarkerLine >>
                    /\ buffer' = << >>
                    /\ state' = STATE_NORMAL ]_vars

\* a block of BEGIN, one body line and END has been read and collapsed
C1_Witness ==
    /\ config.patterns
    /\ pc = "loop"
    /\ Len(inp) >= 3
    /\ LET n == Len(inp)
       IN /\ inp[n - 2].raw = BeginLine /\ inp[n - 2].st = STATE_NORMAL
          /\ inp[n - 1].raw = KeyBodyLine /\ inp[n - 1].st = STATE_IN_PRIVATE_KEY
          /\ inp[n].raw = EndLine /\ inp[n].st = STATE_IN_PRIVATE_KEY
          /\ Sub(out, inp[n - 2].at + 1, Len(out)) = << MarkerLine >>
    /\ state = STATE_NORMAL
    /\ buffer = << >>

\* the input is one BEGIN line followed by n key-body lines, at its end
IsOpenBlock(n) ==
    /\ pc = "done"
    /\ tail = << >>
    /\ Len(inp) = n + 1
    /\ inp[1].raw = BeginLine
    /\ \A i \in 2..(n + 1) : inp[i].raw = KeyBodyLine

\* C2: in IN_PRIVATE_KEY, a step that appends a line not matching END and
\* makes the buffer longer than MAX_PRIVATE_KEY_BUFFER (100) lines writes
\* exactly the one marker line, discards the buffer and enters
\* IN_PRIVATE_KEY_OVERFLOW; and with the patterns filter enabled the whole
\* output for one BEGIN line, 150 body lines and no END is that marker line.
C2_OverflowCollapsed ==
    /\ [][ \A l \in NulFreeLines :
            (/\ state = STATE_IN_PRIVATE_KEY
             /\ Reads(l)
             /\ ~IsMatch(from_utf8_lossy(l), PRIVATE_KEY_END)
             /\ Len(buffer) + 1 > 100) =>
              /\ Written = << MarkerLine >>
              /\ buffer' = << >>
              /\ state' = STATE_IN_PRIVATE_KEY_OVERFLOW ]_vars
    /\ [](config.patterns /\ IsOpenBlock(150) => OutputBytes = MarkerLine)

\* the 101st line of a block has just been appended
C2_Witness ==
    /\ pc = "loop"
    /\ Len(inp) = MAX_PRIVATE_KEY_BUFFER + 1
    /\ inp[1].raw = BeginLine
    /\ inp[Len(inp)].raw = KeyBodyLine
    /\ inp[Len(inp)].st = STATE_IN_PRIVATE_KEY
    /\ state = STATE_IN_PRIVATE_KEY_OVERFLOW
    /\ buffer = << >>
    /\ out = << MarkerLine >>

\* a line was read in IN_PRIVATE_KEY_OVERFLOW before this step
OverflowSeen == \E i \in 1..Len(inp) : inp[i].st = STATE_IN_PRIVATE_KEY_OVERFLOW

\* C3: in IN_PRIVATE_KEY_OVERFLOW a step that reads a line without a null
\* byte writes nothing and buffers nothing, whether or not the line matches
\* BEGIN; the state becomes NORMAL if the line matches END and stays
\* otherwise; and once the state is NORMAL again, a line that does not match
\* BEGIN is written as the pipeline redacts it.
C3_OverflowSilent ==
    [][ \A l \in NulFreeLines : Reads(l) =>
          LET line == from_utf8_lossy(l)
          IN /\ state = STATE_IN_PRIVATE_KEY_OVERFLOW =>
                    /\ Written = << >>
                    /\ buffer' = buffer
                    /\ state' = IF IsMatch(line, PRIVATE_KEY_END)
                                THEN STATE_NORMAL
                                ELSE STATE_IN_PRIVATE_KEY_OVERFLOW
             /\ (/\ OverflowSeen
                 /\ state = STATE_NORMAL
                 /\ ~IsMatch(line, PRIVATE_KEY_BEGIN)
                 /\ pc' # "panic") =>
                    /\ Written = << RedactLine(line) >>
                    /\ state' = STATE_NORMAL ]_vars

\* the overflow has consumed body lines and an END line without a write, and
\* the line of text after them has been redacted and written
C3_Witness ==
    /\ pc = "loop"
    /\ Len(inp) >= 3
    /\ LET n == Len(inp)
       IN /\ inp[n - 2].raw = KeyBodyLine
          /\ inp[n - 2].st = STATE_IN_PRIVATE_KEY_OVERFLOW
          /\ inp[n - 1].raw = EndLine
          /\ inp[n - 1].st = STATE_IN_PRIVATE_KEY_OVERFLOW
          /\ inp[n - 1].at = 1
          /\ inp[n].raw = TextLine
          /\ inp[n].st = STATE_NORMAL
          /\ out = << MarkerLine, RedactLine(TextLine) >>
          /\ RedactLine(TextLine) # TextLine

\* C4: the step at the end of the input writes exactly the one marker line if
\* the state is IN_PRIVATE_KEY, nothing if it is IN_PRIVATE_KEY_OVERFLOW, and
\* in NORMAL nothing if the buffer is empty and else the buffered lines as
\* the pipeline redacts them.
C4_EndOfInput ==
    [][ EofStep =>
          /\ state = STATE_IN_PRIVATE_KEY => Written = << MarkerLine >>
          /\ state = STATE_IN_PRIVATE_KEY_OVERFLOW => Written = << >>
          /\ state = STATE_NORMAL =>
                 /\ buffer = << >> => Written = << >>
                 /\ Written = FlushWrites(buffer, secrets, Patterns, ContextPatterns,
                                          config, EntropyCfg).writes ]_vars

\* the input has ended inside a block of a BEGIN line and a body line
C4_Witness ==
    /\ pc = "done"
    /\ state = STATE_IN_PRIVATE_KEY
    /\ Len(buffer) = 2
    /\ Len(inp) >= 2
    /\ inp[Len(inp)].raw = KeyBodyLine
    /\ inp[Len(inp)].at = Len(out) - 1
    /\ out[Len(out)] = MarkerLine

\* the last line read holds a null byte
BinaryRead == Len(inp) > 0 /\ HasNul(inp[Len(inp)].raw)

\* the lines that were in the buffer when line n was read: the lines of the
\* block that was open, from its BEGIN line on
BufferedAt(n) ==
    IF inp[n].st = STATE_IN_PRIVATE_KEY
    THEN LET j == MaxOf({ i \in 1..(n - 1) : inp[i].st = STATE_NORMAL })
         IN [k \in 1..(n - j) |-> from_utf8_lossy(inp[j + k - 1].raw)]
    ELSE << >>

\* the writes made by the step that read line n, and by the end of the input
\* if line n is the last one
StepWrites(n) ==
    Sub(out, inp[n].at + 1, IF n < Len(inp) THEN inp[n + 1].at ELSE Len(out))

C6_BufferedNeverWritten ==
    \A n \in 1..Len(inp) :
        \A i \in 1..Len(BufferedAt(n)) :
            \A w \in 1..Len(StepWrites(n)) :
                StepWrites(n)[w] # BufferedAt(n)[i]

\* the state after the step that read line n
StateAfter(n) == IF n < Len(inp) THEN inp[n + 1].st ELSE state

\* the writes the ordering guarantee gives line n: for a line read in NORMAL
\* that does not match BEGIN the result of the pipeline, for the line that
\* ends or overflows a block the marker line, for any other line nothing
LineWrites(n) ==
    IF inp[n].st = STATE_NORMAL
    THEN IF IsMatch(from_utf8_lossy(inp[n].raw), PRIVATE_KEY_BEGIN)
         THEN << >>
         ELSE << RedactLine(from_utf8_lossy(inp[n].raw)) >>
    ELSE IF inp[n].st = STATE_IN_PRIVATE_KEY /\ StateAfter(n) # STATE_IN_PRIVATE_KEY
    THEN << MarkerLine >>
    ELSE << >>

\* the blocks entered: the BEGIN lines read in NORMAL
BlocksEntered ==
    { n \in 1..Len(inp) : /\ inp[n].st = STATE_NORMAL
                          /\ IsMatch(from_utf8_lossy(inp[n].raw), PRIVATE_KEY_BEGIN) }

MarkersWritten == { w \in 1..Len(out) : out[w] = MarkerLine }

\* C7: with the patterns filter enabled, once an input without null bytes
\* has ended (and the pipeline has not panicked), the output is, in the order
\* of the lines, the result of the pipeline for each line read in NORMAL that
\* does not match BEGIN and one marker line for each block, written by the
\* line that ends or overflows it or at the end of the input; the number of
\* marker lines is the number of BEGIN lines read in NORMAL, and a line read
\* inside a block or during the overflow never enters a block.
C7_OrderedOutput ==
    (config.patterns /\ pc = "done" /\ ~BinaryRead) =>
        /\ out = Flatten([n \in 1..Len(inp) |-> LineWrites(n)])
                   \o (IF state = STATE_IN_PRIVATE_KEY THEN << MarkerLine >> ELSE << >>)
        /\ Cardinality(MarkersWritten) = Cardinality(BlocksEntered)
        /\ \A n \in 1..Len(inp) :
               (inp[n].st # STATE_IN_PRIVATE_KEY /\ StateAfter(n) = STATE_IN_PRIVATE_KEY) =>
                   /\ inp[n].st = STATE_NORMAL
                   /\ IsMatch(from_utf8_lossy(inp[n].raw), PRIVATE_KEY_BEGIN)

\* a redacted line, then a block with a second BEGIN line inside it, ended
\* by the end of the input: one marker line for two BEGIN lines
C7_Witness ==
    /\ config.patterns
    /\ pc = "done"
    /\ Len(inp) = 3
    /\ inp[1].raw = TextLine
    /\ inp[2].raw = BeginLine
    /\ inp[3].raw = BeginLine
    /\ inp[3].st = STATE_IN_PRIVATE_KEY
    /\ out = << RedactLine(TextLine), MarkerLine >>
    /\ BlocksEntered = { 2 }

\* the lines of the bytes written
OutputLines == Split(OutputBytes, Newline)

\* C8 as stated: for every input and every configuration, patterns disabled
\* or not, the output never holds a line matching BEGIN followed, after its
\* body lines, by a line matching END.
C8_NoBlockInOutput ==
    \A a \in 1..Len(OutputLines) :
        \A b \in (a + 1)..Len(OutputLines) :
            ~(/\ IsMatch(OutputLines[a], PRIVATE_KEY_BEGIN)
              /\ IsMatch(OutputLines[b], PRIVATE_KEY_END))

\* the number of writes made before the arm of the null byte, if it ran
WritesOfLines == IF BinaryRead THEN inp[Len(inp)].at ELSE Len(out)

\* C8: with the patterns filter enabled, no write made for a line without a
\* null byte or at the end of the input matches BEGIN, so no block is in that
\* part of the output: a line matching BEGIN is in the output only if the
\* patterns filter is disabled or in what the arm of the null byte wrote.
C8_NoBeginWritten ==
    config.patterns =>
        \A w \in 1..WritesOfLines : ~IsMatch(out[w], PRIVATE_KEY_BEGIN)

\* a whole block and a line after it were read and written with the patterns
\* filter enabled
C8_Witness ==
    /\ config.patterns
    /\ pc = "done"
    /\ ~BinaryRead
    /\ Len(inp) = 4
    /\ inp[1].raw = BeginLine
    /\ inp[2].raw = KeyBodyLine
    /\ inp[3].raw = EndLine
    /\ inp[4].raw = TextLine
    /\ Len(out) = 2
    /\ out[1] = MarkerLine

\* every filter is disabled
AllDisabled == ~config.values /\ ~config.patterns /\ ~config.entropy

\* the input read is valid UTF-8
ValidUtf8 ==
    /\ \A n \in 1..Len(inp) : \A i \in 1..Len(inp[n].raw) : inp[n].raw[i] # InvalidByte
    /\ \A i \in 1..Len(tail) : tail[i] # InvalidByte

\* C9: with values, patterns and entropy disabled, once an input that is
\* valid UTF-8 has ended, the bytes written are the bytes of the input, and
\* without a null byte each line is one write: blocks are not collapsed,
\* each line keeps its terminator, and a last line without a newline is
\* written without one.
C9_Identity ==
    (AllDisabled /\ pc = "done" /\ ValidUtf8) =>
        /\ OutputBytes = InputBytes
        /\ ~BinaryRead => out = RawLines(1, Len(inp))

\* a whole block and a last line without a newline were copied
C9_Witness ==
    /\ AllDisabled
    /\ pc = "done"
    /\ Len(inp) = 4
    /\ inp[1].raw = BeginLine
    /\ inp[2].raw = KeyBodyLine
    /\ inp[3].raw = EndLine
    /\ inp[4].raw = Unterminated(TextLine)
    /\ out = << BeginLine, KeyBodyLine, EndLine, Unterminated(TextLine) >>

(***************************************************************************)
(* Properties of redact_env_values.                                        *)
(***************************************************************************)
\* the number of occurrences of x in s that str::replace finds
Occurrences(s, x) == (Len(s) - Len(Replace(s, x, << >>))) \div Len(x)

\* the marker of the entry with this name
ValueMarker(name) == Marker(name, describe_structure(secrets.secrets[name]))

\* C10 as stated: after redact_env_values, for any two entries of the map
\* where the shorter value is a substring of the longer one, every occurrence
\* of the longer value in the text has been replaced by the marker of the
\* longer entry: the result holds that marker once for each occurrence, the
\* shorter entry's substitution has consumed no part of it.
C10_LongerValueWins ==
    pc = "return" =>
        \A a \in DOMAIN secrets.secrets, b \in DOMAIN secrets.secrets :
            (/\ Len(secrets.secrets[a]) < Len(secrets.secrets[b])
             /\ Contains(secrets.secrets[b], secrets.secrets[a])) =>
                Occurrences(result, ValueMarker(b)) = Occurrences(text, secrets.secrets[b])

\* C11 as stated: redact_env_values is idempotent: applied to its own result
\* with the same map, for every map that load_secrets admits, it returns
\* that result.
C11_Idempotent == pc = "again" => result = text

\* C12 as stated: the result of redact_env_values for a text and a map is
\* the same whatever the order in which the map yields its entries.
C12_OrderIndependent ==
    pc = "return" =>
        \A o \in IterOrders(DOMAIN secrets.secrets) :
            redact_env_values(text, secrets.secrets, o) = result

\* C13 as stated: with the values filter enabled, the line that redact_line
\* returns for the NORMAL arm holds no substring equal to a value of the map.
C13_NoValueEmitted ==
    (pc = "return" /\ config.values) =>
        \A name \in DOMAIN secrets.secrets :
            ~Contains(RedactLine(text), secrets.secrets[name])

(***************************************************************************)
(* Properties of redact_line and redact_patterns.                          *)
(***************************************************************************)
\* C14 as stated: the pipeline applied to its own result is a fixed point,
\* under every configuration, the special patterns (Git credential URL,
\* Docker auth) included.
C14_FixedPoint == pc = "again" => result = text

\* only the patterns filter is enabled: redact_line is redact_patterns
PatternsOnly == config.patterns /\ ~config.values /\ ~config.entropy

\* the marker that the direct pass writes for the GitHub token
GhpMarker == Marker(build_patterns[1].label, describe_structure(GhpToken))

\* C16 as stated: when a token that matches a direct pattern is in the text,
\* also after a context shell ("password=", "token=", "password "), the
\* result of redact_patterns holds the marker with the direct pattern's
\* label for it: the context pass does not replace that marker.
C16_VendorLabelKept ==
    (pc = "return" /\ PatternsOnly /\ Contains(text, GhpToken)) =>
        Contains(result, GhpMarker)

(***************************************************************************)
(* Properties of describe_structure.                                       *)
(***************************************************************************)
\* C15 as stated: for every token that is not empty, describe_structure of
\* the token does not contain the token.
C15_TokenNotInFingerprint ==
    (pc = "return" /\ text # << >>) => ~Contains(result, text)

\* the part of s before the first sep
FirstPart(s, sep) == Sub(s, 1, MinOf({ i \in 1..Len(s) : s[i] = sep }) - 1)

\* sep occurs in s and the part before it is wholly alphabetic or one of the
\* known prefixes
Qualifies(s, sep) ==
    /\ \E i \in 1..Len(s) : s[i] = sep
    /\ \/ \A i \in 1..Len(FirstPart(s, sep)) : FirstPart(s, sep)[i] \in Alpha
       \/ FirstPart(s, sep) \in known_prefixes

LongForm(s, sep) ==
    FirstPart(s, sep) \o << sep >> \o <<".",".",".",":">> \o Dec(Len(s))
        \o <<"c","h","a","r","s">>

\* C20: for a token of n >= 50 characters describe_structure returns
\* "{first}{sep}...:{n}chars" for the first of the separators "-", "_", "."
\* that occurs in the token with a first part that is wholly alphabetic or a
\* known prefix; a separator that occurs with a first part that is neither
\* does not end the search; "{n}chars" is returned only if no separator
\* qualifies.
C20_LongToken ==
    (pc = "return" /\ Len(text) >= 50) =>
        result = IF Qualifies(text, "-") THEN LongForm(text, "-")
                 ELSE IF Qualifies(text, "_") THEN LongForm(text, "_")
                 ELSE IF Qualifies(text, ".") THEN LongForm(text, ".")
                 ELSE Dec(Len(text)) \o <<"c","h","a","r","s">>

\* a token of 50 characters in which "-" occurs after a part that does not
\* qualify and "_" after a part that does
C20_Witness ==
    /\ pc = "return"
    /\ text = Pad(<<"a", "_", "-">>, 50)
    /\ result = <<"a","_",".",".",".",":","5","0","c","h","a","r","s">>

\* the positions of sep in s, and the position of the k-th of them (0 before
\* the first part, Len(s) + 1 after the last)
SepPositions(s, sep) == { i \in 1..Len(s) : s[i] = sep }

KthSep(s, sep, k) ==
    IF k = 0 THEN 0
    ELSE IF k > Cardinality(SepPositions(s, sep)) THEN Len(s) + 1
    ELSE CHOOSE i \in SepPositions(s, sep) :
             Cardinality({ j \in SepPositions(s, sep) : j <= i }) = k

\* the k-th of the parts that the occurrences of sep cut s into
PartOf(s, sep, k) ==
    Sub(s, KthSep(s, sep, k - 1) + 1, KthSep(s, sep, k) - 1)

\* the classification of a part: empty, nN for digits, nA for letters, nX
ClassOf(p) ==
    IF Len(p) = 0 THEN << >>
    ELSE Dec(Len(p)) \o << IF \A i \in 1..Len(p) : p[i] \in Digit THEN "N"
                           ELSE IF \A i \in 1..Len(p) : p[i] \in Alpha THEN "A"
                           ELSE "X" >>

\* the classifications of the parts from..last of s, joined by sep
RECURSIVE ClassesFrom(_, _, _, _)
ClassesFrom(s, sep, from, last) ==
    IF from > last THEN << >>
    ELSE ClassOf(PartOf(s, sep, from))
         \o (IF from < last THEN << sep >> ELSE << >>)
         \o ClassesFrom(s, sep, from + 1, last)

\* the short form of s for the separator sep
ShortForm(s, sep) ==
    LET n     == Cardinality(SepPositions(s, sep)) + 1
        first == PartOf(s, sep, 1)
    IN IF (\A i \in 1..Len(first) : first[i] \in Alpha) /\ Len(first) <= 12
       THEN first \o << sep >> \o ClassesFrom(s, sep, 2, n)
       ELSE ClassesFrom(s, sep, 1, n)

Occurs(s, sep) == SepPositions(s, sep) # {}

HasFilterValue(args) ==
    \/ Len(args) = 2 /\ args[1] \in { Str_f, Str_filter }
    \/ Len(args) = 1 /\ Len(args[1]) >= 9 /\ Sub(args[1], 1, 9) = Str_filter_eq

FilterValueOf(args) ==
    IF Len(args) = 2 THEN args[2] ELSE Sub(args[1], 10, Len(args[1]))

\* the tokens of a filter value, trimmed and lower-cased
FilterTokens(v) ==
    { to_lowercase(trim(Split(v, ",")[k])) : k \in 1..Len(Split(v, ",")) }

\* C17: when the arguments give a filter value, parse_filter_config returns
\* the error (exit status 1) iff no token of the comma-separated value,
\* trimmed and lower-cased, is values, patterns, entropy or all; otherwise
\* each of values, patterns and entropy is true iff its own name or all is
\* among the tokens, whatever else is, and so at least one of them is true.
C17_CliFilter ==
    (pc = "return" /\ HasFilterValue(text.args)) =>
        LET tokens == FilterTokens(FilterValueOf(text.args))
        IN IF tokens \cap { Str_values, Str_patterns, Str_entropy, Str_all } = {}
           THEN result.kind = "err" /\ result.status = 1
           ELSE /\ result.kind = "ok"
                /\ result.config.values <=> (Str_values \in tokens \/ Str_all \in tokens)
                /\ result.config.patterns <=>
                       (Str_patterns \in tokens \/ Str_all \in tokens)
                /\ result.config.entropy <=>
                       (Str_entropy \in tokens \/ Str_all \in tokens)
                /\ \/ result.config.values
                   \/ result.config.patterns
                   \/ result.config.entropy

\* -f "bogus,Patterns": the unknown token is ignored, patterns is enabled
C17_Witness ==
    /\ pc = "return"
    /\ text.args = << Str_f, <<"b","o","g","u","s",",","P","a","t","t","e","r","n","s">> >>
    /\ result = Ok([values |-> FALSE, patterns |-> TRUE, entropy |-> FALSE])

\* the value of a variable is one of these, in any case of the letters
IsOneOf(env, name, words) == name \in DOMAIN env /\ to_lowercase(env[name]) \in words

\* C18: when the arguments give a filter value, the result is the one the
\* same arguments give with none of the three variables set (every
\* environment of the model is compared with that one, so no two
\* environments give different results); when they give none, values and
\* patterns are enabled unless their variable is set to 0, false or no, and
\* entropy is enabled only if its variable is set to 1, true or yes.
C18_EnvOnlyWithoutCli ==
    pc = "return" =>
        IF HasFilterValue(text.args)
        THEN result = parse_filter_config(text.args, << >>)
        ELSE result.kind = "ok" =>
               /\ result.config.values <=>
                      ~IsOneOf(text.env, "SECRETS_FILTER_VALUES",
                               { <<"0">>, <<"f","a","l","s","e">>, <<"n","o">> })
               /\ result.config.patterns <=>
                      ~IsOneOf(text.env, "SECRETS_FILTER_PATTERNS",
                               { <<"0">>, <<"f","a","l","s","e">>, <<"n","o">> })
               /\ result.config.entropy <=>
                      IsOneOf(text.env, "SECRETS_FILTER_ENTROPY",
                              { <<"1">>, <<"t","r","u","e">>, <<"y","e","s">> })

\* -f values with SECRETS_FILTER_VALUES=No and SECRETS_FILTER_ENTROPY=1
C18_Witness ==
    /\ pc = "return"
    /\ text.args = << Str_f, Str_values >>
    /\ text.env = [n \in { "SECRETS_FILTER_VALUES", "SECRETS_FILTER_ENTROPY" } |->
                      IF n = "SECRETS_FILTER_VALUES" THEN <<"N","o">> ELSE <<"1">>]
    /\ result = Ok([values |-> TRUE, patterns |-> FALSE, entropy |-> FALSE])

(***************************************************************************)
(* Properties of the driver of rust/src/main.rs.                           *)
(***************************************************************************)
\* C19 as stated: in the driver of rust/src/main.rs a private-key block
\* fails closed: with the patterns filter enabled and no null byte read, no
\* BEGIN line and no key-body line is written, whether the block is closed
\* by END, grows over MAX_PRIVATE_KEY_BUFFER lines or is open when the input
\* ends, and the lines of a runaway block after the bound are not written
\* either.  (In the inputs of the model every key-body line follows a BEGIN
\* line with no END line between.)
C19_FailsClosed ==
    (config.patterns /\ ~BinaryRead) =>
        \A w \in 1..Len(out) : out[w] \notin { BeginLine, KeyBodyLine }

(***************************************************************************)
(* Properties of redact_entropy.                                           *)
(***************************************************************************)
\* the tokens that extract_tokens records for the line, and the replacements
\* that redact_entropy schedules for them
RecordedTokens ==
    extract_tokens(text, EntropyCfg.min_length, EntropyCfg.max_length)

Scheduled == ReplacementsOf(text, RecordedTokens, EntropyCfg).reps

\* the scheduled span with k - 1 scheduled spans starting before it
SpanAt(reps, k) ==
    CHOOSE r \in { reps[i] : i \in 1..Len(reps) } :
        Cardinality({ i \in 1..Len(reps) : reps[i].start < r.start }) = k - 1

\* the line with the spans from the k-th on replaced by their markers, the
\* bytes before the offset from being left out
RECURSIVE Spliced(_, _, _, _)
Spliced(line, reps, k, from) ==
    IF k > Len(reps) THEN Sub(line, from + 1, Len(line))
    ELSE Sub(line, from + 1, SpanAt(reps, k).start) \o SpanAt(reps, k).text
             \o Spliced(line, reps, k + 1, SpanAt(reps, k).end)

\* C22: in redact_entropy every recorded span [start, end) holds the text of
\* its token (a whole run between delimiters), the spans are disjoint and
\* increase with the order of the tokens, the replacements are scheduled from
\* the highest start offset to the lowest, and the result is the line with
\* every scheduled span replaced by its marker at once, the bytes outside the
\* spans unchanged and in their order.
C22_SpansAndSplice ==
    pc = "return" =>
        /\ \A k \in 1..Len(RecordedTokens) :
              LET t == RecordedTokens[k]
              IN /\ 0 <= t.start /\ t.start < t.end /\ t.end <= Len(text)
                 /\ Sub(text, t.start + 1, t.end) = t.text
                 /\ \A i \in (t.start + 1)..t.end : text[i] \notin TokenDelims
                 /\ t.start = 0 \/ text[t.start] \in TokenDelims
                 /\ t.end = Len(text) \/ text[t.end + 1] \in TokenDelims
        /\ \A k \in 1..(Len(RecordedTokens) - 1) :
              RecordedTokens[k].end <= RecordedTokens[k + 1].start
        /\ \A k \in 1..(Len(Scheduled) - 1) :
              Scheduled[k].start >= Scheduled[k + 1].end
        /\ result = Spliced(text, Scheduled, 1, 0)

\* a line with two tokens that are both replaced, the second one equal to the
\* first
C22_Witness ==
    /\ pc = "return"
    /\ text = Str_a1b2 \o <<" ">> \o Str_a1b2
    /\ Len(Scheduled) = 2
    /\ Len(result) > 2 * Len(text)

(***************************************************************************)
(* Consistency of the driver's state and buffer.                           *)
(***************************************************************************)
\* the last line that was read in NORMAL
LastReadInNormal == MaxOf({ i \in 1..Len(inp) : inp[i].st = STATE_NORMAL })

\* the writes that the line with a null byte and the rest of the input get
RawWrites == << inp[Len(inp)].raw >> \o (IF tail = << >> THEN << >> ELSE << tail >>)

\* C23: after every line that the loop has processed, in NORMAL and in
\* IN_PRIVATE_KEY_OVERFLOW the buffer is empty, and in IN_PRIVATE_KEY the
\* buffer holds between 1 and MAX_PRIVATE_KEY_BUFFER lines, the lines read
\* since the BEGIN line that opened the block, that line being the first.  So
\* the end of the input in NORMAL flushes nothing, and a line with a null
\* byte read in a state other than IN_PRIVATE_KEY is preceded by no flushed
\* line.
C23_StateBufferConsistent ==
    /\ pc = "loop" =>
          /\ state \in { STATE_NORMAL, STATE_IN_PRIVATE_KEY,
                         STATE_IN_PRIVATE_KEY_OVERFLOW }
          /\ state # STATE_IN_PRIVATE_KEY => buffer = << >>
          /\ state = STATE_IN_PRIVATE_KEY =>
                /\ 1 <= Len(buffer)
                /\ Len(buffer) <= MAX_PRIVATE_KEY_BUFFER
                /\ Len(buffer) = Len(inp) - LastReadInNormal + 1
                /\ buffer[1] = from_utf8_lossy(inp[LastReadInNormal].raw)
                /\ IsMatch(buffer[1], PRIVATE_KEY_BEGIN)
    /\ (pc = "done" /\ ~BinaryRead /\ state = STATE_NORMAL) =>
          /\ buffer = << >>
          /\ Len(out) = IF inp = << >> THEN 0
                        ELSE inp[Len(inp)].at
                             + (IF inp[Len(inp)].st = STATE_IN_PRIVATE_KEY_OVERFLOW
                                THEN 0 ELSE 1)
    /\ (pc = "done" /\ BinaryRead /\ inp[Len(inp)].st # STATE_IN_PRIVATE_KEY) =>
          StepWrites(Len(inp)) = RawWrites

\* a block of MAX_PRIVATE_KEY_BUFFER lines is open
C23_Witness ==
    /\ pc = "loop"
    /\ state = STATE_IN_PRIVATE_KEY
    /\ Len(buffer) = MAX_PRIVATE_KEY_BUFFER
    /\ buffer[1] = BeginLine

\* C24 as stated: with the entropy filter enabled, for every decoded line
\* and every token of it the context-keyword check over the 50 bytes before
\* the token's start yields a boolean, the window being a valid slice of the
\* line, and redact_entropy does not abort.
C24_ContextCheckCompletes ==
    /\ \A k \in 1..Len(RecordedTokens) :
          has_context_keyword(text, RecordedTokens[k].start,
                              ENTROPY_CONTEXT_KEYWORDS) \in { "true", "false" }
    /\ pc # "panic"

=============================================================================
